---------------------------- MODULE Spec2Model ----------------------------
(***************************************************************************)
(* Model of the ProjectZipperAI project-extraction pipeline:               *)
(*   parseWithRegex / safeJsonParse / findAdditionalFiles /                *)
(*   extractDocumentationNotes   (services/projectParser)                  *)
(*   generateReadme              (services/documentationService)           *)
(*   getAiClient                 (services/geminiService)                  *)
(*   handleProcessInput, clearMainState   (App)                            *)
(*                                                                         *)
(* A JavaScript string is a sequence of one-character strings.  A long     *)
(* literal of the program that no regular expression of the program looks  *)
(* into (a fixed message) is kept as one element of the sequence.          *)
(***************************************************************************)
EXTENDS Integers, Sequences, FiniteSets, TLC

(***************************************************************************)
(* Strings                                                                 *)
(***************************************************************************)
NL == "\n"
\* the grave accent (U+0060), the one character written here by its name
BT == "GRAVE"
Whitespace == {" ", "\t", "\n", "\r"}
Letters == {"a", "b", "c", "d", "e", "f", "g", "h", "i", "j", "k", "l", "m",
            "n", "o", "p", "q", "r", "s", "t", "u", "v", "w", "x", "y", "z",
            "A", "B", "C", "D", "E", "F", "G", "H", "I", "J", "K", "L", "M",
            "N", "O", "P", "Q", "R", "S", "T", "U", "V", "W", "X", "Y", "Z"}
Digits == {"0", "1", "2", "3", "4", "5", "6", "7", "8", "9"}
\* the character class [\w./-] of fileHeaderRegex
PathChars == Letters \cup Digits \cup {"_", ".", "/", "-"}

UpperToLower ==
    [c \in {"A", "B", "C", "D", "E", "F", "G", "H", "I", "J", "K", "L", "M",
            "N", "O", "P", "Q", "R", "S", "T", "U", "V", "W", "X", "Y", "Z"} |->
        CASE c = "A" -> "a" [] c = "B" -> "b" [] c = "C" -> "c" [] c = "D" -> "d"
          [] c = "E" -> "e" [] c = "F" -> "f" [] c = "G" -> "g" [] c = "H" -> "h"
          [] c = "I" -> "i" [] c = "J" -> "j" [] c = "K" -> "k" [] c = "L" -> "l"
          [] c = "M" -> "m" [] c = "N" -> "n" [] c = "O" -> "o" [] c = "P" -> "p"
          [] c = "Q" -> "q" [] c = "R" -> "r" [] c = "S" -> "s" [] c = "T" -> "t"
          [] c = "U" -> "u" [] c = "V" -> "v" [] c = "W" -> "w" [] c = "X" -> "x"
          [] c = "Y" -> "y" [] c = "Z" -> "z"]

\* String.prototype.toLowerCase
ToLowerCase(s) ==
    [i \in 1..Len(s) |-> IF s[i] \in DOMAIN UpperToLower THEN UpperToLower[s[i]] ELSE s[i]]

\* s.substring(from - 1) in 1-based positions: the characters from..Len(s)
Substring(s, from) == SubSeq(s, from, Len(s))

\* does the literal pat occur in s at position i
OccursAt(s, i, pat) ==
    /\ i >= 1
    /\ i + Len(pat) - 1 <= Len(s)
    /\ \A k \in 1..Len(pat) : s[i + k - 1] = pat[k]

\* String.prototype.startsWith
StartsWith(s, pat) == OccursAt(s, 1, pat)

\* String.prototype.trim
Trim(s) ==
    LET keep == {i \in 1..Len(s) : s[i] \notin Whitespace}
    IN  IF keep = {} THEN <<>>
        ELSE LET lo == CHOOSE i \in keep : \A j \in keep : i <= j
                 hi == CHOOSE i \in keep : \A j \in keep : i >= j
             IN  SubSeq(s, lo, hi)

\* String.prototype.split on a literal separator, scanning from position i
RECURSIVE SplitFrom(_, _, _, _)
SplitFrom(s, sep, i, start) ==
    LET hits == {j \in i..Len(s) : OccursAt(s, j, sep)}
    IN  IF hits = {} THEN <<SubSeq(s, start, Len(s))>>
        ELSE LET j == CHOOSE x \in hits : \A y \in hits : x <= y
             IN  <<SubSeq(s, start, j - 1)>> \o SplitFrom(s, sep, j + Len(sep), j + Len(sep))

Split(s, sep) == SplitFrom(s, sep, 1, 1)

(***************************************************************************)
(* parseWithRegex                                                          *)
(***************************************************************************)
SectionDelimiter == <<NL, "-", "-", "-", NL>>
Fence == <<BT, BT, BT>>
CloseFence == <<NL, BT, BT, BT>>
ManifestPath == <<"m", "a", "n", "i", "f", "e", "s", "t", ".", "j", "s", "o", "n">>
IconPrefix == <<"i", "c", "o", "n", "s", "/", "i", "c", "o", "n">>
IconSuffix == <<".", "p", "n", "g">>
Quote == "\""

\* the header pattern without its leading hashes: a path between two grave
\* accents anywhere on the line
HeaderPathAnywhere(firstLine) ==
    LET n == Len(firstLine)
        closes(p, q) == /\ q > p + 1
                        /\ firstLine[q] = BT
                        /\ \A j \in (p + 1)..(q - 1) : firstLine[j] \in PathChars
        opens == {p \in 1..n : /\ firstLine[p] = BT
                                /\ \E q \in (p + 2)..n : closes(p, q)}
    IN  IF opens = {} THEN <<>>
        ELSE LET p == CHOOSE x \in opens : \A y \in opens : x >= y
                 q == CHOOSE x \in (p + 2)..n : closes(p, x)
             IN  SubSeq(firstLine, p + 1, q - 1)

\* firstLine.match(fileHeaderRegex)[1], or <<>> when the line does not match:
\* hashes, any characters but line terminators, then a path between two
\* grave accents.  The greedy .* makes the captured path the one that opens
\* at the last grave accent a match can start from.
HeaderPath(firstLine) ==
    LET n == Len(firstLine)
        closes(p, q) == /\ q > p + 1
                        /\ firstLine[q] = BT
                        /\ \A j \in (p + 1)..(q - 1) : firstLine[j] \in PathChars
        opens == {p \in 2..n : /\ firstLine[p] = BT
                                /\ \A j \in 2..(p - 1) : firstLine[j] \notin {NL, "\r"}
                                /\ \E q \in (p + 2)..n : closes(p, q)}
    IN  IF n = 0 \/ firstLine[1] # "#" \/ opens = {} THEN <<>>
        ELSE LET p == CHOOSE x \in opens : \A y \in opens : x >= y
                 q == CHOOSE x \in (p + 2)..n : closes(p, x)
             IN  SubSeq(firstLine, p + 1, q - 1)

\* position just after the optional language tag of a fence opening at i
RECURSIVE SkipLetters(_, _)
SkipLetters(s, i) ==
    IF i <= Len(s) /\ s[i] \in Letters THEN SkipLetters(s, i + 1) ELSE i

\* trimmedSection.match(codeBlockRegex):
\* the leftmost fence that is followed by a tag and a newline and later by a
\* closing fence; the lazy group ends at the first closing fence.
CodeMatch(s) ==
    LET n == Len(s)
        body(i) == SkipLetters(s, i + Len(Fence)) + 1
        ends(i) == {j \in body(i)..n : OccursAt(s, j, CloseFence)}
        starts == {i \in 1..n : /\ OccursAt(s, i, Fence)
                                /\ body(i) - 1 <= n
                                /\ s[body(i) - 1] = NL
                                /\ ends(i) # {}}
    IN  IF starts = {} THEN [matched |-> FALSE, group |-> <<>>]
        ELSE LET i == CHOOSE x \in starts : \A y \in starts : x <= y
                 j == CHOOSE x \in ends(i) : \A y \in ends(i) : x <= y
             IN  [matched |-> TRUE, group |-> SubSeq(s, body(i), j - 1)]

\* the content of a section whose header matched (lines 53-64)
SectionContent(trimmedSection, firstLine) ==
    LET codeMatch == CodeMatch(trimmedSection)
    IN  IF codeMatch.matched /\ codeMatch.group # <<>>
        THEN Trim(codeMatch.group)
        ELSE Trim(Substring(trimmedSection, Len(firstLine) + 1))

\* the loop over the sections (lines 44-67)
RECURSIVE ParseSections(_, _)
ParseSections(sections, k) ==
    IF k > Len(sections) THEN <<>>
    ELSE LET trimmedSection == Trim(sections[k])
             firstLine == Trim(Split(trimmedSection, <<NL>>)[1])
             path == HeaderPath(firstLine)
         IN  IF trimmedSection = <<>> \/ path = <<>>
             THEN ParseSections(sections, k + 1)
             ELSE <<[path |-> path, content |-> SectionContent(trimmedSection, firstLine)]>>
                  \o ParseSections(sections, k + 1)

Paths(files) == {files[i].path : i \in 1..Len(files)}

\* the end of the digits of an icon reference whose opening quote is at i
RECURSIVE SkipDigits(_, _)
SkipDigits(s, i) ==
    IF i <= Len(s) /\ s[i] \in Digits THEN SkipDigits(s, i + 1) ELSE i

\* content.matchAll(/"(icons\/icon\d+\.png)"/g) mapped to group 1, in order
RECURSIVE IconPathsFrom(_, _)
IconPathsFrom(s, i) ==
    LET quotes == {j \in i..Len(s) : s[j] = Quote}
    IN  IF quotes = {} THEN <<>>
        ELSE LET q == CHOOSE x \in quotes : \A y \in quotes : x <= y
                 d == q + 1 + Len(IconPrefix)
                 e == SkipDigits(s, d)
                 hit == /\ OccursAt(s, q + 1, IconPrefix)
                        /\ e > d
                        /\ OccursAt(s, e, IconSuffix)
                        /\ OccursAt(s, e + Len(IconSuffix), <<Quote>>)
             IN  IF hit
                 THEN <<SubSeq(s, q + 1, e + Len(IconSuffix) - 1)>>
                      \o IconPathsFrom(s, e + Len(IconSuffix) + 1)
                 ELSE IconPathsFrom(s, q + 1)

\* [...new Set(iconPaths)]: the first occurrence of each element, in order
RECURSIVE Unique(_)
Unique(seq) ==
    IF seq = <<>> THEN <<>>
    ELSE LET front == Unique(SubSeq(seq, 1, Len(seq) - 1))
             last == seq[Len(seq)]
         IN  IF \E i \in 1..Len(front) : front[i] = last THEN front ELSE Append(front, last)

\* the manifest post-process without the files.some test of line 74
RECURSIVE AddIconStubsUnchecked(_, _, _)
AddIconStubsUnchecked(files, iconPaths, k) ==
    IF k > Len(iconPaths) THEN files
    ELSE AddIconStubsUnchecked(Append(files, [path |-> iconPaths[k], content |-> <<>>]),
                               iconPaths, k + 1)

\* the manifest post-process (lines 69-78)
RECURSIVE AddIconStubs(_, _, _)
AddIconStubs(files, iconPaths, k) ==
    IF k > Len(iconPaths) THEN files
    ELSE IF iconPaths[k] \in Paths(files)
         THEN AddIconStubs(files, iconPaths, k + 1)
         ELSE AddIconStubs(Append(files, [path |-> iconPaths[k], content |-> <<>>]),
                           iconPaths, k + 1)

parseWithRegex(fileContent) ==
    LET files == ParseSections(Split(fileContent, SectionDelimiter), 1)
        manifests == {i \in 1..Len(files) : files[i].path = ManifestPath}
    IN  IF manifests = {} THEN files
        ELSE LET m == CHOOSE i \in manifests : \A j \in manifests : i <= j
             IN  AddIconStubs(files, Unique(IconPathsFrom(files[m].content, 1)), 1)

(***************************************************************************)
(* The AI service.  A call of generateContent rejects with an error or     *)
(* resolves with a response whose text is a string or undefined.  The text *)
(* of a structured response is kept as what JSON.parse makes of it:        *)
(*   fence: "json" when the text starts with a json fence and ends with a  *)
(*          fence, "plain" when it is fenced without the json tag, "none"; *)
(*   doc:   the JSON document between, or Malformed.                       *)
(* JSON values are tagged records.                                         *)
(***************************************************************************)
Undefined == [t |-> "undefined"]
JNull == [t |-> "null"]
Malformed == [t |-> "malformed"]
JStr(s) == [t |-> "string", v |-> s]
JNum(n) == [t |-> "number", v |-> n]
JArr(a) == [t |-> "array", v |-> a]
JObj(o) == [t |-> "object", v |-> o]
NoText == [fence |-> "undefined", doc |-> Undefined]

\* x.name for a JSON value x (undefined for a missing property or a primitive)
Prop(x, name) ==
    IF x.t = "object" /\ name \in DOMAIN x.v THEN x.v[name] ELSE Undefined

\* JavaScript truthiness of a parsed JSON value
Truthy(x) ==
    CASE x.t \in {"undefined", "null"} -> FALSE
      [] x.t = "string" -> x.v # <<>>
      [] x.t = "number" -> x.v # 0
      [] OTHER -> TRUE

\* s.replace(/```/g, '') on one string
RECURSIVE RemoveFences(_)
RemoveFences(s) ==
    IF s = <<>> THEN <<>>
    ELSE IF OccursAt(s, 1, Fence) THEN RemoveFences(Substring(s, Len(Fence) + 1))
         ELSE <<s[1]>> \o RemoveFences(Substring(s, 2))

\* rawText.replace(/```json\n|```/g, '') seen on the document: the fences
\* around it go, and so does every fence inside one of its string literals
RECURSIVE StripFences(_)
StripFences(x) ==
    CASE x.t = "string" -> JStr(RemoveFences(x.v))
      [] x.t = "array" -> JArr([i \in 1..Len(x.v) |-> StripFences(x.v[i])])
      [] x.t = "object" -> JObj([k \in DOMAIN x.v |-> StripFences(x.v[k])])
      [] OTHER -> x

\* safeJsonParse stripping any fence, tagged json or not
safeJsonParseAnyFence(text) ==
    LET jsonText == IF text.fence \in {"json", "plain"} THEN StripFences(text.doc)
                    ELSE text.doc
    IN  IF jsonText = Malformed THEN JNull ELSE jsonText

\* safeJsonParse (lines 146-155); JSON.parse throwing gives null
safeJsonParse(text) ==
    LET jsonText == IF text.fence = "json" THEN StripFences(text.doc)
                    ELSE IF text.fence = "plain" THEN Malformed
                    ELSE text.doc
    IN  IF jsonText = Malformed THEN JNull ELSE jsonText

\* what a call of ai.models.generateContent can come to
Rejected(error) == [kind |-> "reject", error |-> error, text |-> NoText]
Resolved(text) == [kind |-> "resolve", error |-> <<>>, text |-> text]
TrimOfUndefined == <<"Cannot read properties of undefined (reading 'trim')">>

\* does the try block of a step executor throw on this outcome: the call
\* rejected, or response.text is undefined and .trim() is called on it
Throws(outcome) == outcome.kind = "reject" \/ outcome.text = NoText

\* error.message of what the catch block receives
CaughtMessage(outcome) ==
    IF outcome.kind = "reject" THEN outcome.error ELSE TrimOfUndefined

(***************************************************************************)
(* getAiClient (lines 15-22 of services/geminiService)                     *)
(***************************************************************************)
NoKey == [defined |-> FALSE, value |-> <<>>]
Key(k) == [defined |-> TRUE, value |-> k]

\* getAiClient without the check of the key
getAiClientUnchecked(apiKeyOverride, envApiKey) == TRUE

\* TRUE when a client is returned, FALSE for null
getAiClient(apiKeyOverride, envApiKey) ==
    LET apiKey == IF apiKeyOverride # <<>> THEN Key(apiKeyOverride) ELSE envApiKey
    IN  apiKey.defined /\ apiKey.value # <<>>

(***************************************************************************)
(* Step executors.  An async function settles by returning a value or by   *)
(* throwing an error with a message.                                       *)
(***************************************************************************)
Returned(value) == [threw |-> FALSE, value |-> value, message |-> <<>>]
Thrown(message) == [threw |-> TRUE, value |-> <<>>, message |-> message]

\* the forEach without existingPaths.add(file.path)
RECURSIVE AppendAdditionalNoAdd(_, _, _, _)
AppendAdditionalNoAdd(files, existingPaths, additionalFiles, k) ==
    IF k > Len(additionalFiles) THEN files
    ELSE LET file == additionalFiles[k]
             path == Prop(file, "path")
             content == Prop(file, "content")
         IN  IF /\ Truthy(file)
                /\ path.t = "string"
                /\ content.t = "string"
                /\ path.v \notin existingPaths
             THEN AppendAdditionalNoAdd(Append(files, [path |-> path.v, content |-> content.v]),
                                        existingPaths, additionalFiles, k + 1)
             ELSE AppendAdditionalNoAdd(files, existingPaths, additionalFiles, k + 1)

\* the forEach with unshift in place of push
RECURSIVE AppendAdditionalInFront(_, _, _, _)
AppendAdditionalInFront(files, existingPaths, additionalFiles, k) ==
    IF k > Len(additionalFiles) THEN files
    ELSE LET file == additionalFiles[k]
             path == Prop(file, "path")
             content == Prop(file, "content")
         IN  IF /\ Truthy(file)
                /\ path.t = "string"
                /\ content.t = "string"
                /\ path.v \notin existingPaths
             THEN AppendAdditionalInFront(<<[path |-> path.v, content |-> content.v]>> \o files,
                                          existingPaths \cup {path.v}, additionalFiles, k + 1)
             ELSE AppendAdditionalInFront(files, existingPaths, additionalFiles, k + 1)

\* the forEach storing the content of the response in an entry whose path is
\* already there
RECURSIVE AppendAdditionalOverwrite(_, _, _, _)
AppendAdditionalOverwrite(files, existingPaths, additionalFiles, k) ==
    IF k > Len(additionalFiles) THEN files
    ELSE LET file == additionalFiles[k]
             path == Prop(file, "path")
             content == Prop(file, "content")
         IN  IF Truthy(file) /\ path.t = "string" /\ content.t = "string"
             THEN IF path.v \notin existingPaths
                  THEN AppendAdditionalOverwrite(
                           Append(files, [path |-> path.v, content |-> content.v]),
                           existingPaths \cup {path.v}, additionalFiles, k + 1)
                  ELSE AppendAdditionalOverwrite(
                           [n \in 1..Len(files) |->
                               IF files[n].path = path.v
                               THEN [files[n] EXCEPT !.content = content.v] ELSE files[n]],
                           existingPaths, additionalFiles, k + 1)
             ELSE AppendAdditionalOverwrite(files, existingPaths, additionalFiles, k + 1)

\* the forEach over additionalFiles (lines 189-197)
RECURSIVE AppendAdditional(_, _, _, _)
AppendAdditional(files, existingPaths, additionalFiles, k) ==
    IF k > Len(additionalFiles) THEN files
    ELSE LET file == additionalFiles[k]
             path == Prop(file, "path")
             content == Prop(file, "content")
         IN  IF /\ Truthy(file)
                /\ path.t = "string"
                /\ content.t = "string"
                /\ path.v \notin existingPaths
             THEN AppendAdditional(Append(files, [path |-> path.v, content |-> content.v]),
                                   existingPaths \cup {path.v}, additionalFiles, k + 1)
             ELSE AppendAdditional(files, existingPaths, additionalFiles, k + 1)

\* an executor that returns the state with the raw input dropped
findAdditionalFilesDroppingContent(pipelineData, outcome) ==
    Returned([pipelineData EXCEPT !.fullProjectContent = <<>>])

\* findAdditionalFiles after the call has settled (lines 179-201)
findAdditionalFiles(pipelineData, outcome) ==
    IF Throws(outcome) THEN Returned(pipelineData)
    ELSE LET aiResult == safeJsonParse(outcome.text)
             given == IF Truthy(aiResult) THEN Prop(aiResult, "additionalFiles") ELSE Undefined
             additionalFiles == IF given = Undefined THEN JArr(<<>>) ELSE given
         IN  IF additionalFiles.t = "array"
             THEN Returned([pipelineData EXCEPT !.files =
                      AppendAdditional(pipelineData.files, Paths(pipelineData.files),
                                       additionalFiles.v, 1)])
             ELSE Returned(pipelineData)

FallbackNotePrefix == <<"Estrazione della documentazione AI fallita. Errore: ">>

\* extractDocumentationNotes without its catch block: the error goes up
extractDocumentationNotesRethrow(pipelineData, outcome) ==
    IF Throws(outcome) THEN Thrown(CaughtMessage(outcome))
    ELSE LET aiResult == safeJsonParse(outcome.text)
             notes == Prop(aiResult, "documentationNotes")
         IN  IF Truthy(aiResult) /\ notes.t = "string"
             THEN Returned([pipelineData EXCEPT !.documentationNotes = notes.v])
             ELSE Returned(pipelineData)

\* extractDocumentationNotes whose catch block replaces the notes
extractDocumentationNotesReplace(pipelineData, outcome) ==
    IF Throws(outcome)
    THEN Returned([pipelineData EXCEPT !.documentationNotes =
                      FallbackNotePrefix \o CaughtMessage(outcome)])
    ELSE LET aiResult == safeJsonParse(outcome.text)
             notes == Prop(aiResult, "documentationNotes")
         IN  IF Truthy(aiResult) /\ notes.t = "string"
             THEN Returned([pipelineData EXCEPT !.documentationNotes = notes.v])
             ELSE Returned(pipelineData)

\* extractDocumentationNotes whose try block adds the notes to those it found
extractDocumentationNotesAppend(pipelineData, outcome) ==
    IF Throws(outcome)
    THEN LET fallbackNote == FallbackNotePrefix \o CaughtMessage(outcome)
         IN  Returned([pipelineData EXCEPT !.documentationNotes =
                 IF pipelineData.documentationNotes # <<>>
                 THEN pipelineData.documentationNotes \o <<NL>> \o fallbackNote
                 ELSE fallbackNote])
    ELSE LET aiResult == safeJsonParse(outcome.text)
             notes == Prop(aiResult, "documentationNotes")
         IN  IF Truthy(aiResult) /\ notes.t = "string"
             THEN Returned([pipelineData EXCEPT !.documentationNotes = @ \o notes.v])
             ELSE Returned(pipelineData)

\* extractDocumentationNotes after the call has settled (lines 222-238)
extractDocumentationNotes(pipelineData, outcome) ==
    IF Throws(outcome)
    THEN LET fallbackNote == FallbackNotePrefix \o CaughtMessage(outcome)
         IN  Returned([pipelineData EXCEPT !.documentationNotes =
                 IF pipelineData.documentationNotes # <<>>
                 THEN pipelineData.documentationNotes \o <<NL>> \o fallbackNote
                 ELSE fallbackNote])
    ELSE LET aiResult == safeJsonParse(outcome.text)
             notes == Prop(aiResult, "documentationNotes")
         IN  IF Truthy(aiResult) /\ notes.t = "string"
             THEN Returned([pipelineData EXCEPT !.documentationNotes = notes.v])
             ELSE Returned(pipelineData)

ReadmeSkipped == <<"# Generazione README Saltata [no API key configured]">>
ReadmeFailedHead == <<"# Documentazione del Progetto [placeholder] Dettagli dell'Errore:", NL>> \o Fence \o <<NL>>
ReadmeFailedTail == <<NL>> \o Fence

\* generateReadme without a client (lines 185-187)
generateReadmeNoClient == Returned(ReadmeSkipped)

\* generateReadme after the call has settled (lines 199-211); the text of a
\* free-form response is its doc, a string
generateReadme(outcome) ==
    IF Throws(outcome)
    THEN Returned(ReadmeFailedHead \o CaughtMessage(outcome) \o ReadmeFailedTail)
    ELSE Returned(Trim(outcome.text.doc.v))

ReadmePath == <<"R", "E", "A", "D", "M", "E", ".", "m", "d">>
ReadmePathLower == <<"r", "e", "a", "d", "m", "e", ".", "m", "d">>

\* the upsert without its findIndex: an entry is put in front every time
UpsertReadmeAlwaysInsert(files, readmeContent) ==
    <<[path |-> ReadmePath, content |-> readmeContent]>> \o files

\* the upsert with push in place of unshift
UpsertReadmeAtEnd(files, readmeContent) ==
    LET found == {i \in 1..Len(files) : ToLowerCase(files[i].path) = ReadmePathLower}
    IN  IF found # {}
        THEN LET readmeIndex == CHOOSE i \in found : \A j \in found : i <= j
             IN  [files EXCEPT ![readmeIndex].content = readmeContent]
        ELSE Append(files, [path |-> ReadmePath, content |-> readmeContent])

\* the upsert with an exact comparison of the path in place of the lowercased one
UpsertReadmeCaseSensitive(files, readmeContent) ==
    LET found == {i \in 1..Len(files) : files[i].path = ReadmePath}
    IN  IF found # {}
        THEN LET readmeIndex == CHOOSE i \in found : \A j \in found : i <= j
             IN  [files EXCEPT ![readmeIndex].content = readmeContent]
        ELSE <<[path |-> ReadmePath, content |-> readmeContent]>> \o files

\* the README upsert of the orchestrator (App lines 192-197)
UpsertReadme(files, readmeContent) ==
    LET found == {i \in 1..Len(files) : ToLowerCase(files[i].path) = ReadmePathLower}
    IN  IF found # {}
        THEN LET readmeIndex == CHOOSE i \in found : \A j \in found : i <= j
             IN  [files EXCEPT ![readmeIndex].content = readmeContent]
        ELSE <<[path |-> ReadmePath, content |-> readmeContent]>> \o files

(***************************************************************************)
(* processInputFiles (lines 120-138) for plain-text uploads                *)
(***************************************************************************)
RECURSIVE processInputFiles(_)
processInputFiles(inputFiles) ==
    IF inputFiles = <<>> THEN <<>>
    ELSE inputFiles[1].content \o SectionDelimiter \o processInputFiles(Tail(inputFiles))

(***************************************************************************)
(* Workflow steps (constants.ts lines 100-143)                             *)
(***************************************************************************)
StepTypes == {"FIND_FILES", "EXTRACT_DOCS", "GENERATE_README"}

DefinitionName(type) ==
    CASE type = "FIND_FILES" -> <<"Trova File Aggiuntivi">>
      [] type = "EXTRACT_DOCS" -> <<"Estrai Note di Documentazione">>
      [] type = "GENERATE_README" -> <<"Genera README.md">>

DefinitionPrompt(type) ==
    CASE type = "FIND_FILES" -> <<"fileFinderPrompt">>
      [] type = "EXTRACT_DOCS" -> <<"docExtractorPrompt">>
      [] type = "GENERATE_README" -> <<"readmeGenerationPrompt">>

NewStep(id, type) ==
    [id |-> id, type |-> type, name |-> DefinitionName(type),
     prompt |-> DefinitionPrompt(type), enabled |-> TRUE]

INITIAL_WORKFLOW_STEPS ==
    <<NewStep(1, "FIND_FILES"), NewStep(2, "EXTRACT_DOCS"), NewStep(3, "GENERATE_README")>>

\* the filter left out: every configured step is active
FilterNone(steps) == steps

\* workflowSteps.filter(step => step.enabled)
RECURSIVE FilterEnabled(_)
FilterEnabled(steps) ==
    IF steps = <<>> THEN <<>>
    ELSE IF steps[1].enabled THEN <<steps[1]>> \o FilterEnabled(Tail(steps))
         ELSE FilterEnabled(Tail(steps))

\* uuidv4(): an id no step of the list carries
FreshId(steps) ==
    CHOOSE n \in 1..(Len(steps) + 1) : \A k \in 1..Len(steps) : steps[k].id # n

\* WorkflowEditor handleUpdate (lines 94-96): a new list, the step of that id
\* replaced by a new object
WithUpdated(steps, updatedStep) ==
    [n \in 1..Len(steps) |-> IF steps[n].id = updatedStep.id THEN updatedStep ELSE steps[n]]

\* handleDelete (lines 98-102), the confirmation given
WithoutStep(steps, id) == SelectSeq(steps, LAMBDA s : s.id # id)

\* handleClone (lines 104-112) of the step at position k
WithClone(steps, k) ==
    LET stepToClone == steps[k]
        newStep == [stepToClone EXCEPT !.id = FreshId(steps), !.name = @ \o <<" (Copia)">>]
    IN  SubSeq(steps, 1, k) \o <<newStep>> \o SubSeq(steps, k + 1, Len(steps))

\* handleAddStep (lines 114-126)
WithAdded(steps, type) == Append(steps, NewStep(FreshId(steps), type))

\* handleDrop (lines 137-149): the dragged step is taken out and put back at
\* the position the target had
WithDropped(steps, draggedIndex, targetIndex) ==
    LET rest == SubSeq(steps, 1, draggedIndex - 1) \o SubSeq(steps, draggedIndex + 1, Len(steps))
    IN  SubSeq(rest, 1, targetIndex - 1) \o <<steps[draggedIndex]>>
        \o SubSeq(rest, targetIndex, Len(rest))

(***************************************************************************)
(* Bounds and the inputs drawn from them                                   *)
(***************************************************************************)
MaxSections == 2
MaxAdditional == 2
MaxSteps == 4

PathA == <<"a">>
PathN == <<"n">>
\* a section with a heading and a fenced block, and one of plain prose
FileSection == <<"#", " ", BT, "a", BT, NL>> \o Fence \o <<NL, "x", NL>> \o Fence
ProseSection == <<"h", "i">>
Sections == {FileSection, ProseSection}

RECURSIVE JoinSections(_)
JoinSections(secs) ==
    IF Len(secs) = 1 THEN secs[1]
    ELSE secs[1] \o SectionDelimiter \o JoinSections(Tail(secs))

\* texts of at most MaxSections file sections, after a prose section or not
InputTexts ==
    {JoinSections(secs) : secs \in
        {s \in UNION {[1..n -> Sections] : n \in 1..(MaxSections + 1)} :
            /\ \A j \in 2..Len(s) : s[j] = FileSection
            /\ Len(s) = MaxSections + 1 => s[1] = ProseSection}}

Uploads == {<<[name |-> "a.txt", content |-> t]>> : t \in {FileSection, ProseSection}}

NetError == <<"Failed to fetch">>
IngestErrors == {<<"Corrupted zip">>, <<>>}

JFile(path, content) == JObj([path |-> JStr(path), content |-> JStr(content)])
AiItems == {JFile(PathA, <<"A", "I">>), JFile(PathN, Fence \o <<"N">>)}
AiArrays == UNION {[1..n -> AiItems] : n \in 0..MaxAdditional}
Plain(doc) == [fence |-> "none", doc |-> doc]
Fenced(doc) == [fence |-> "json", doc |-> doc]

FindFilesOutcomes ==
    {Rejected(NetError), Resolved(NoText), Resolved(Plain(Malformed)),
     Resolved(Plain(JNull)), Resolved(Plain(JObj([additionalFiles |-> JNull]))),
     Resolved(Plain(JObj([other |-> JNull]))),
     Resolved(Plain(JObj([additionalFiles |->
                 JArr(<<JNull, JObj([path |-> JStr(PathN)]), JFile(<<>>, <<>>)>>)]))),
     Resolved([fence |-> "plain", doc |-> JObj([additionalFiles |-> JArr(<<JFile(PathN, <<>>)>>)])])}
    \cup {Resolved(Plain(JObj([additionalFiles |-> JArr(a)]))) : a \in AiArrays}
    \cup {Resolved(Fenced(JObj([additionalFiles |-> JArr(a)]))) : a \in {b \in AiArrays : Len(b) = 1}}

Notes == <<"N", "o", "t", "e", "s">>
ExtractDocsOutcomes ==
    {Rejected(NetError), Resolved(NoText), Resolved(Plain(Malformed)),
     Resolved(Plain(JObj([other |-> JNull]))),
     Resolved(Plain(JObj([documentationNotes |-> JNum(1)]))),
     Resolved(Plain(JObj([documentationNotes |-> JStr(Notes)]))),
     Resolved(Fenced(JObj([documentationNotes |-> JStr(<<>>)])))}

ReadmeOutcomes ==
    {Rejected(NetError), Resolved(NoText),
     Resolved(Plain(JStr(<<" ", "D", "o", "c", NL>>))), Resolved(Plain(JStr(<<" ">>)))}

Outcomes(type) ==
    CASE type = "FIND_FILES" -> FindFilesOutcomes
      [] type = "EXTRACT_DOCS" -> ExtractDocsOutcomes
      [] type = "GENERATE_README" -> ReadmeOutcomes

(***************************************************************************)
(* The App component: its state, the frame of handleProcessInput while it  *)
(* is suspended, and a record of what the run in progress (or the last     *)
(* one) did.                                                               *)
(***************************************************************************)
VARIABLES
    appStep,            \* 'input' | 'processing' | 'editor'
    error,              \* the global error message, or null
    processingMessage,  \* the progress message, or null
    parsedFiles,        \* the committed file list
    selectedFilePath,   \* the selected path, or null
    workflowSteps,      \* the configured steps
    apiKeyOverride,     \* the key typed in the settings, '' when none
    envApiKey,          \* process.env.API_KEY
    pc,                 \* "idle", or where handleProcessInput is suspended
    input,              \* the argument of handleProcessInput
    pipelineData,       \* its local pipelineData
    activeSteps,        \* its local activeSteps
    i,                  \* its loop index, from 1
    executed,           \* history: ids of the steps dispatched, in order
    aiCalls,            \* history: ids of the steps that called generateContent
    before,             \* history: pipelineData when the step began
    lastStep,           \* history: the step that has just ended and the outcome of its call
    result              \* history: "none" | "success" | "failure"

appVars == <<appStep, error, processingMessage, parsedFiles, selectedFilePath,
             workflowSteps, apiKeyOverride, envApiKey>>
frameVars == <<pc, input, pipelineData, activeSteps, i>>
historyVars == <<executed, aiCalls, before, lastStep, result>>
vars == <<appVars, frameVars, historyVars>>

Null == [isNull |-> TRUE, value |-> <<>>]
Some(v) == [isNull |-> FALSE, value |-> v]

EmptyPipelineData == [fullProjectContent |-> <<>>, files |-> <<>>, documentationNotes |-> <<>>]
NoInput == [kind |-> "none", value |-> <<>>]
NoOutcome == [kind |-> "none", error |-> <<>>, text |-> NoText]
NoStep == [type |-> "none", client |-> FALSE, outcome |-> NoOutcome]

EmptyFilesMessage == <<"Impossibile analizzare i file. Verifica il formato dell'input.">>
UnexpectedMessage == <<"Si e' verificato un errore imprevisto durante l'elaborazione.">>

Init ==
    /\ appStep = "input"
    /\ error = Null
    /\ processingMessage = Null
    /\ parsedFiles = <<>>
    /\ selectedFilePath = Null
    /\ workflowSteps = INITIAL_WORKFLOW_STEPS
    /\ apiKeyOverride = <<>>
    /\ envApiKey \in {NoKey, Key(<<"E">>)}
    /\ pc = "idle"
    /\ input = NoInput
    /\ pipelineData = EmptyPipelineData
    /\ activeSteps = <<>>
    /\ i = 1
    /\ executed = <<>>
    /\ aiCalls = <<>>
    /\ before = EmptyPipelineData
    /\ lastStep = NoStep
    /\ result = "none"

\* the history of the previous run is dropped when the user acts again
ForgetRun ==
    /\ input' = NoInput
    /\ pipelineData' = EmptyPipelineData
    /\ activeSteps' = <<>>
    /\ i' = 1
    /\ executed' = <<>>
    /\ aiCalls' = <<>>
    /\ before' = EmptyPipelineData
    /\ lastStep' = NoStep
    /\ result' = "none"

\* the rendering without the test of line 256: the InputView stays on screen
\* while a run is in flight
InputViewShownWhileProcessing == appStep \in {"input", "processing"}

\* the InputView is rendered (App lines 256-295): not while processing
InputViewShown == appStep = "input" /\ pc = "idle"

(***************************************************************************)
(* Settings and workflow editor actions of the InputView                   *)
(***************************************************************************)
\* ApiKeyEditor onChange -> setApiKeyOverride
SetApiKeyOverride(k) ==
    /\ InputViewShown
    /\ apiKeyOverride # k
    /\ apiKeyOverride' = k
    /\ ForgetRun
    /\ UNCHANGED <<appStep, error, processingMessage, parsedFiles, selectedFilePath,
                   workflowSteps, envApiKey, pc>>

\* handleUpdate from the enabled checkbox of a step card
handleUpdate(k) ==
    /\ InputViewShown
    /\ k \in 1..Len(workflowSteps)
    /\ workflowSteps' = WithUpdated(workflowSteps, [workflowSteps[k] EXCEPT !.enabled = ~@])
    /\ ForgetRun
    /\ UNCHANGED <<appStep, error, processingMessage, parsedFiles, selectedFilePath,
                   apiKeyOverride, envApiKey, pc>>

\* handleClone
handleClone(k) ==
    /\ InputViewShown
    /\ k \in 1..Len(workflowSteps)
    /\ Len(workflowSteps) < MaxSteps
    /\ Len(workflowSteps[k].name) < MaxSteps
    /\ workflowSteps' = WithClone(workflowSteps, k)
    /\ ForgetRun
    /\ UNCHANGED <<appStep, error, processingMessage, parsedFiles, selectedFilePath,
                   apiKeyOverride, envApiKey, pc>>

(***************************************************************************)
(* handleProcessInput (App lines 158-214), one action per stretch between  *)
(* two suspension points                                                   *)
(***************************************************************************)
PreparingMessage == [index |-> 1, total |-> 0, name |-> <<"Preparazione dell'input">>]
StepMessage(k, n, name) == [index |-> k + 1, total |-> n + 1, name |-> name]

\* lines 159-165: the state set before the try block
EnterProcessing(newInput) ==
    /\ appStep' = "processing"
    /\ error' = Null
    /\ processingMessage' = Some(PreparingMessage)
    /\ input' = newInput
    /\ executed' = <<>>
    /\ aiCalls' = <<>>
    /\ before' = EmptyPipelineData
    /\ lastStep' = NoStep
    /\ result' = "none"
    /\ i' = 1

\* lines 175-178, once fullProjectContent is known
Prepare(fullProjectContent) ==
    /\ pipelineData' = [fullProjectContent |-> fullProjectContent,
                        files |-> parseWithRegex(fullProjectContent),
                        documentationNotes |-> <<>>]
    /\ activeSteps' = FilterEnabled(workflowSteps)
    /\ pc' = "loop"

\* the text form is submitted (TextAreaUploader onSubmit) with a string
StartText(text) ==
    /\ InputViewShown
    /\ Trim(text) # <<>>
    /\ EnterProcessing([kind |-> "text", value |-> Trim(text)])
    /\ Prepare(Trim(text))
    /\ UNCHANGED <<parsedFiles, selectedFilePath, workflowSteps, apiKeyOverride, envApiKey>>

\* files are dropped or chosen (FileUploader): suspended in processInputFiles
StartFiles(files) ==
    /\ InputViewShown
    /\ files # <<>>
    /\ EnterProcessing([kind |-> "files", value |-> files])
    /\ pc' = "ingest"
    /\ pipelineData' = EmptyPipelineData
    /\ activeSteps' = <<>>
    /\ UNCHANGED <<parsedFiles, selectedFilePath, workflowSteps, apiKeyOverride, envApiKey>>

\* processInputFiles resolves
IngestResolve ==
    /\ pc = "ingest"
    /\ Prepare(processInputFiles(input.value))
    /\ UNCHANGED <<appVars, input, i, historyVars>>

\* the catch block without its setAppStep('input')
FailStayingInProcessing(message) ==
    /\ error' = Some(IF message # <<>> THEN message ELSE UnexpectedMessage)
    /\ appStep' = appStep
    /\ processingMessage' = Null
    /\ result' = "failure"
    /\ pc' = "idle"

\* the catch block without its setError
FailSilent(message) ==
    /\ error' = Null
    /\ appStep' = "input"
    /\ processingMessage' = Null
    /\ result' = "failure"
    /\ pc' = "idle"

\* lines 208-213: the catch and finally blocks
Fail(message) ==
    /\ error' = Some(IF message # <<>> THEN message ELSE UnexpectedMessage)
    /\ appStep' = "input"
    /\ processingMessage' = Null
    /\ result' = "failure"
    /\ pc' = "idle"

\* processInputFiles rejects
IngestReject(message) ==
    /\ pc = "ingest"
    /\ Fail(message)
    /\ UNCHANGED <<parsedFiles, selectedFilePath, workflowSteps, apiKeyOverride, envApiKey,
                   input, pipelineData, activeSteps, i, executed, aiCalls, before, lastStep>>

\* the switch of lines 183-199 around what the executor of the step settles
\* with: the state the loop goes on with, or what is thrown to the catch
StepResult(type, data, settled) ==
    IF settled.threw THEN settled
    ELSE IF type = "GENERATE_README"
         THEN Returned([data EXCEPT !.files = UpsertReadme(@, settled.value)])
         ELSE settled

\* the executor of a step without a client (its first two lines)
ExecuteNoClient(type, data) ==
    CASE type = "FIND_FILES" -> Returned(data)
      [] type = "EXTRACT_DOCS" -> Returned(data)
      [] type = "GENERATE_README" -> generateReadmeNoClient

\* the executor of a step whose call of generateContent has settled
Execute(type, data, outcome) ==
    CASE type = "FIND_FILES" -> findAdditionalFiles(data, outcome)
      [] type = "EXTRACT_DOCS" -> extractDocumentationNotes(data, outcome)
      [] type = "GENERATE_README" -> generateReadme(outcome)

\* the loop goes on with the next step, or the catch block runs
Continue(stepResult) ==
    IF stepResult.threw
    THEN /\ Fail(stepResult.message)
         /\ UNCHANGED <<pipelineData, i>>
    ELSE /\ pipelineData' = stepResult.value
         /\ i' = i + 1
         /\ pc' = "loop"
         /\ UNCHANGED <<appStep, error, processingMessage, result>>

\* the step the loop would take if it read the configured list anew at each
\* iteration
ActiveStepLive(k) ==
    LET live == FilterEnabled(workflowSteps)
    IN  IF k <= Len(live) THEN live[k] ELSE activeSteps[k]

\* line 180: const step = activeSteps[i]
ActiveStep(k) == activeSteps[k]

\* the loop without its await: the call of the next step is issued together
\* with the call of this one
BeginStepPipelined ==
    /\ pc = "loop"
    /\ i <= Len(activeSteps)
    /\ LET step == ActiveStep(i)
       IN  /\ executed' = Append(executed, step.id)
           /\ before' = pipelineData
           /\ IF getAiClient(apiKeyOverride, envApiKey)
              THEN /\ processingMessage' = Some(StepMessage(i, Len(activeSteps), step.name))
                   /\ aiCalls' = Append(aiCalls, step.id)
                                \o IF i < Len(activeSteps) THEN <<activeSteps[i + 1].id>>
                                   ELSE <<>>
                   /\ pc' = "await"
                   /\ lastStep' = NoStep
                   /\ UNCHANGED <<appStep, error, result, pipelineData, i>>
              ELSE /\ lastStep' = [type |-> step.type, client |-> FALSE, outcome |-> NoOutcome]
                   /\ LET stepResult == StepResult(step.type, pipelineData,
                                                   ExecuteNoClient(step.type, pipelineData))
                      IN  IF stepResult.threw
                          THEN /\ Fail(stepResult.message)
                               /\ UNCHANGED <<pipelineData, i>>
                          ELSE /\ pipelineData' = stepResult.value
                               /\ i' = i + 1
                               /\ processingMessage' =
                                      Some(StepMessage(i, Len(activeSteps), step.name))
                               /\ UNCHANGED <<appStep, error, result, pc>>
                   /\ UNCHANGED aiCalls
    /\ UNCHANGED <<parsedFiles, selectedFilePath, workflowSteps,
                   apiKeyOverride, envApiKey, input, activeSteps>>

\* lines 180-191 up to the call of generateContent; without a client the
\* executor returns at once
BeginStep ==
    /\ pc = "loop"
    /\ i <= Len(activeSteps)
    /\ LET step == ActiveStep(i)
       IN  /\ executed' = Append(executed, step.id)
           /\ before' = pipelineData
           /\ IF getAiClient(apiKeyOverride, envApiKey)
              THEN /\ processingMessage' = Some(StepMessage(i, Len(activeSteps), step.name))
                   /\ aiCalls' = Append(aiCalls, step.id)
                   /\ pc' = "await"
                   /\ lastStep' = NoStep
                   /\ UNCHANGED <<appStep, error, result, pipelineData, i>>
              ELSE /\ lastStep' = [type |-> step.type, client |-> FALSE, outcome |-> NoOutcome]
                   /\ LET stepResult == StepResult(step.type, pipelineData,
                                                   ExecuteNoClient(step.type, pipelineData))
                      IN  IF stepResult.threw
                          THEN /\ Fail(stepResult.message)
                               /\ UNCHANGED <<pipelineData, i>>
                          ELSE /\ pipelineData' = stepResult.value
                               /\ i' = i + 1
                               /\ processingMessage' =
                                      Some(StepMessage(i, Len(activeSteps), step.name))
                               /\ UNCHANGED <<appStep, error, result, pc>>
                   /\ UNCHANGED aiCalls
    /\ UNCHANGED <<parsedFiles, selectedFilePath, workflowSteps,
                   apiKeyOverride, envApiKey, input, activeSteps>>

\* generateContent has settled with outcome and the executor runs to its return
Settled(outcome) ==
    /\ pc = "await"
    /\ lastStep' = [type |-> ActiveStep(i).type, client |-> TRUE, outcome |-> outcome]
    /\ Continue(StepResult(ActiveStep(i).type, pipelineData,
                           Execute(ActiveStep(i).type, pipelineData, outcome)))
    /\ UNCHANGED <<parsedFiles, selectedFilePath, workflowSteps, apiKeyOverride, envApiKey,
                   input, activeSteps, executed, aiCalls, before>>

\* generateContent resolves or rejects, with one of the outcomes followed for
\* the type of the step
SettleStep(outcome) ==
    /\ pc = "await"
    /\ outcome \in Outcomes(ActiveStep(i).type)
    /\ Settled(outcome)

\* lines 202-213 without the check of line 202
FinishUnchecked ==
    /\ pc = "loop"
    /\ i > Len(activeSteps)
    /\ parsedFiles' = pipelineData.files
    /\ selectedFilePath' = IF pipelineData.files # <<>> /\ pipelineData.files[1].path # <<>>
                           THEN Some(pipelineData.files[1].path) ELSE Null
    /\ appStep' = "editor"
    /\ processingMessage' = Null
    /\ result' = "success"
    /\ pc' = "idle"
    /\ before' = pipelineData
    /\ lastStep' = NoStep
    /\ UNCHANGED <<error, workflowSteps, apiKeyOverride, envApiKey, input, pipelineData,
                   activeSteps, i, executed, aiCalls>>

\* lines 202-213 after the loop
Finish ==
    /\ pc = "loop"
    /\ i > Len(activeSteps)
    /\ IF Len(pipelineData.files) = 0
       THEN /\ Fail(EmptyFilesMessage)
            /\ UNCHANGED <<parsedFiles, selectedFilePath>>
       ELSE /\ parsedFiles' = pipelineData.files
            /\ selectedFilePath' = IF pipelineData.files[1].path # <<>>
                                   THEN Some(pipelineData.files[1].path) ELSE Null
            /\ appStep' = "editor"
            /\ processingMessage' = Null
            /\ result' = "success"
            /\ pc' = "idle"
            /\ UNCHANGED error
    /\ before' = pipelineData
    /\ lastStep' = NoStep
    /\ UNCHANGED <<workflowSteps, apiKeyOverride, envApiKey, input, pipelineData,
                   activeSteps, i, executed, aiCalls>>

\* clearMainState (lines 145-151) from the editor's start-over button
clearMainState ==
    /\ appStep = "editor"
    /\ pc = "idle"
    /\ error' = Null
    /\ parsedFiles' = <<>>
    /\ selectedFilePath' = Null
    /\ appStep' = "input"
    /\ ForgetRun
    /\ UNCHANGED <<processingMessage, workflowSteps, apiKeyOverride, envApiKey, pc>>

\* the retry button under the error (line 301)
Retry ==
    /\ InputViewShown
    /\ error # Null
    /\ error' = Null
    /\ ForgetRun
    /\ UNCHANGED <<appStep, processingMessage, parsedFiles, selectedFilePath,
                   workflowSteps, apiKeyOverride, envApiKey, pc>>

Next ==
    \/ \E k \in {<<>>, <<"K">>} : SetApiKeyOverride(k)
    \/ \E k \in 1..MaxSteps : handleUpdate(k)
    \/ \E k \in 1..MaxSteps : handleClone(k)
    \/ \E text \in InputTexts : StartText(text)
    \/ \E files \in Uploads : StartFiles(files)
    \/ IngestResolve
    \/ \E message \in IngestErrors : IngestReject(message)
    \/ BeginStep
    \/ \E outcome \in FindFilesOutcomes \cup ExtractDocsOutcomes \cup ReadmeOutcomes :
          SettleStep(outcome)
    \/ Finish
    \/ clearMainState
    \/ Retry

Spec == Init /\ [][Next]_vars

(***************************************************************************)
(* Properties                                                              *)
(***************************************************************************)
NoDuplicatePaths(files) ==
    \A j, k \in 1..Len(files) : j # k => files[j].path # files[k].path

IsPrefix(s, t) == Len(s) <= Len(t) /\ SubSeq(t, 1, Len(s)) = s

Range(seq) == {seq[k] : k \in 1..Len(seq)}

\* a step of this type has just ended and the loop has not gone on yet
StepEnded(type) == pc = "loop" /\ lastStep.type = type

\* the ways the call of a step can fail, read off the outcome of the call
CallRejected(o) == o.kind = "reject"
NoResponseText(o) == o.kind = "resolve" /\ o.text = NoText
Unparseable(o) ==
    /\ o.kind = "resolve"
    /\ o.text # NoText
    /\ (o.text.fence = "plain" \/ o.text.doc = Malformed)
Parseable(o) == o.kind = "resolve" /\ o.text # NoText /\ ~Unparseable(o)
LacksNotesString(o) == Parseable(o) /\ Prop(o.text.doc, "documentationNotes").t # "string"

\* the run ended in the catch block because processInputFiles rejected
IngestFailed ==
    result = "failure" /\ input.kind = "files" /\ pipelineData.fullProjectContent = <<>>

\* the run is over and its loop ran to the end
LoopCompleted == result # "none" /\ ~IngestFailed

NoCredential == apiKeyOverride = <<>> /\ ~(envApiKey.defined /\ envApiKey.value # <<>>)

ReadmeEntries(files) == {k \in 1..Len(files) : ToLowerCase(files[k].path) = ReadmePathLower}

\* C1 (as claimed): after extraction and after each step of a run, and in
\* the list a successful run commits, no two files have the same path.
C1_UniquePathsAfterEveryStep ==
    /\ pc = "loop" => NoDuplicatePaths(pipelineData.files)
    /\ result = "success" => NoDuplicatePaths(parsedFiles)

\* C2 (as claimed): a run on a text in which no section has a matching
\* header always ends in Failure: error set, app back at the input stage.
C2_NoMatchingSectionIsFatal ==
    (/\ result # "none"
     /\ pipelineData.fullProjectContent \in {ProseSection, ProseSection \o SectionDelimiter})
    => (result = "failure" /\ error # Null /\ appStep = "input")

\* C3: a run that ends in Success has committed a non-empty file list; the
\* emptiness check is made only once the loop over the active steps is over
\* (a run in progress is never failed, whatever its files), and an empty
\* list at that point always gives Failure with the message of line 202.
C3_SuccessHasFiles ==
    /\ result = "success" =>
          appStep = "editor" /\ parsedFiles # <<>> /\ parsedFiles = pipelineData.files
    /\ pc \in {"loop", "await"} => result = "none" /\ appStep = "processing" /\ error = Null
    /\ (LoopCompleted /\ pipelineData.files = <<>>) =>
          /\ result = "failure"
          /\ appStep = "input"
          /\ error = Some(EmptyFilesMessage)
          /\ i > Len(activeSteps)
    /\ (LoopCompleted /\ result = "failure") => pipelineData.files = <<>>

\* a successful run on a text from which nothing was extracted
C3_Witness ==
    /\ result = "success"
    /\ pipelineData.fullProjectContent = ProseSection
    /\ parsedFiles # <<>>

\* C4: the steps a run dispatches are the configured steps with enabled =
\* true, in the configured order; a disabled step is never dispatched and no
\* AI call is issued for it.
C4_EnabledStepsInOrder ==
    LET enabledSteps == SelectSeq(workflowSteps, LAMBDA s : s.enabled)
        enabledIds == [k \in 1..Len(enabledSteps) |-> enabledSteps[k].id]
        dispatched == IF pc = "await" THEN i ELSE i - 1
    IN  (appStep = "processing" \/ result # "none") =>
          /\ dispatched <= Len(enabledIds)
          /\ executed = SubSeq(enabledIds, 1, dispatched)
          /\ LoopCompleted => executed = enabledIds
          /\ Range(aiCalls) \subseteq Range(executed)
          /\ \A k \in 1..Len(workflowSteps) :
                ~workflowSteps[k].enabled =>
                    workflowSteps[k].id \notin Range(executed) \cup Range(aiCalls)

\* a finished run of two steps around a disabled one
C4_Witness ==
    /\ result = "success"
    /\ Len(workflowSteps) = Len(INITIAL_WORKFLOW_STEPS)
    /\ ~workflowSteps[2].enabled
    /\ executed = <<workflowSteps[1].id, workflowSteps[3].id>>
    /\ aiCalls = executed

\* C5: a step whose AI contribution failed (no client, call rejected,
\* response without text, unparseable or of the wrong shape) leaves the run
\* in progress with no error set; a run whose ingestion succeeded ends only
\* after every active step was dispatched, and ends in Failure only with an
\* empty file list and the message of line 202, never with a step's error.
C5_StepFailureDoesNotAbort ==
    /\ (/\ lastStep.type # "none"
        /\ \/ ~lastStep.client
           \/ CallRejected(lastStep.outcome)
           \/ NoResponseText(lastStep.outcome)
           \/ Unparseable(lastStep.outcome)
           \/ (lastStep.type = "EXTRACT_DOCS" /\ LacksNotesString(lastStep.outcome))
           \/ (/\ lastStep.type = "FIND_FILES"
               /\ Parseable(lastStep.outcome)
               /\ Prop(lastStep.outcome.text.doc, "additionalFiles").t # "array"))
       => (pc = "loop" /\ result = "none" /\ error = Null /\ appStep = "processing")
    /\ LoopCompleted =>
          /\ Len(executed) = Len(activeSteps)
          /\ result = "failure" => (pipelineData.files = <<>> /\ error = Some(EmptyFilesMessage))

\* a successful run of the three default steps in which the Extract-Docs
\* call and the Generate-README call both failed
C5_Witness ==
    /\ result = "success"
    /\ Len(executed) = Len(INITIAL_WORKFLOW_STEPS)
    /\ aiCalls = executed
    /\ IsPrefix(FallbackNotePrefix, pipelineData.documentationNotes)
    /\ \E k \in 1..Len(parsedFiles) : IsPrefix(ReadmeFailedHead, parsedFiles[k].content)

\* C6: when the call of Find-Files rejects, or its response has no text or
\* is not parseable JSON, the step returns files and documentationNotes (the
\* whole pipelineData) as they were, and the orchestrator sees no error.
C6_FindFilesFailureKeepsState ==
    (/\ lastStep.type = "FIND_FILES"
     /\ lastStep.client
     /\ \/ CallRejected(lastStep.outcome)
        \/ NoResponseText(lastStep.outcome)
        \/ Unparseable(lastStep.outcome))
    => /\ pipelineData = before
       /\ pc = "loop"
       /\ error = Null
       /\ result = "none"

\* Find-Files has ended on a fenced response without the json tag, with
\* files already extracted
C6_Witness ==
    /\ StepEnded("FIND_FILES")
    /\ lastStep.client
    /\ lastStep.outcome.kind = "resolve"
    /\ lastStep.outcome.text.fence = "plain"
    /\ before.files # <<>>
    /\ pipelineData.files = before.files

\* the documentation notes are the notes before the step with a fallback
\* diagnostic appended
DiagnosticAppended ==
    /\ pipelineData.documentationNotes # before.documentationNotes
    /\ IsPrefix(before.documentationNotes, pipelineData.documentationNotes)
    /\ \E k \in 1..Len(pipelineData.documentationNotes) :
          /\ k > Len(before.documentationNotes)
          /\ pipelineData.documentationNotes[k] = FallbackNotePrefix[1]

\* C7 (as claimed): on every failure of Extract-Docs with a client (call
\* rejected, malformed JSON, or no string documentationNotes field) a marked
\* diagnostic is appended to the notes, which are never left unchanged.
C7_ExtractDocsFailureAppendsDiagnostic ==
    (/\ StepEnded("EXTRACT_DOCS")
     /\ lastStep.client
     /\ \/ CallRejected(lastStep.outcome)
        \/ Unparseable(lastStep.outcome)
        \/ LacksNotesString(lastStep.outcome))
    => DiagnosticAppended

\* C8 (as claimed): a failed Extract-Docs step leaves files and
\* documentationNotes as they were, for every failure mode.
C8_ExtractDocsFailureChangesNothing ==
    (/\ StepEnded("EXTRACT_DOCS")
     /\ \/ ~lastStep.client
        \/ CallRejected(lastStep.outcome)
        \/ NoResponseText(lastStep.outcome)
        \/ Unparseable(lastStep.outcome)
        \/ LacksNotesString(lastStep.outcome))
    => /\ pipelineData.files = before.files
       /\ pipelineData.documentationNotes = before.documentationNotes

\* C8 (amended): a failed Extract-Docs step leaves files as they were and
\* only ever appends to documentationNotes: the notes before the step are a
\* prefix of the notes after it, for every failure mode.
C8_ExtractDocsFailureKeepsFilesAndPriorNotes ==
    (/\ StepEnded("EXTRACT_DOCS")
     /\ \/ ~lastStep.client
        \/ CallRejected(lastStep.outcome)
        \/ NoResponseText(lastStep.outcome)
        \/ Unparseable(lastStep.outcome)
        \/ LacksNotesString(lastStep.outcome))
    => /\ pipelineData.files = before.files
       /\ pipelineData.fullProjectContent = before.fullProjectContent
       /\ IsPrefix(before.documentationNotes, pipelineData.documentationNotes)

\* a second Extract-Docs step has failed on a rejected call after a first
\* one had stored notes: the notes are kept and the diagnostic follows them
C8_Witness ==
    /\ StepEnded("EXTRACT_DOCS")
    /\ CallRejected(lastStep.outcome)
    /\ before.documentationNotes = Notes
    /\ before.files # <<>>
    /\ DiagnosticAppended

\* C9: without a credential (no override, no ambient key) a run issues no
\* service call; Find-Files and Extract-Docs return the state they were
\* given, and Generate-README returns the fixed no-credential fallback,
\* which the upsert stores as the content of the README entry.
C9_NoCredentialNoCall ==
    (NoCredential /\ appStep = "processing") =>
        /\ aiCalls = <<>>
        /\ pc # "await"
        /\ (StepEnded("FIND_FILES") \/ StepEnded("EXTRACT_DOCS")) => pipelineData = before
        /\ StepEnded("GENERATE_README") =>
              /\ ReadmeEntries(pipelineData.files) # {}
              /\ \E k \in ReadmeEntries(pipelineData.files) :
                    pipelineData.files[k].content = ReadmeSkipped
              /\ pipelineData.documentationNotes = before.documentationNotes
              /\ pipelineData.fullProjectContent = before.fullProjectContent

\* the three default steps have run without a credential, the last one the
\* Generate-README step
C9_Witness ==
    /\ NoCredential
    /\ StepEnded("GENERATE_README")
    /\ Len(executed) = Len(INITIAL_WORKFLOW_STEPS)
    /\ aiCalls = <<>>
    /\ before.files # <<>>
    /\ pipelineData.files[1].content = ReadmeSkipped

\* the entries Find-Files has appended
AddedByFindFiles ==
    SubSeq(pipelineData.files, Len(before.files) + 1, Len(pipelineData.files))

\* C10: Find-Files only appends, never a path that state.files held before
\* the step, and no path twice, whatever the AI response holds.
C10_FindFilesAddsNewPathsOnce ==
    StepEnded("FIND_FILES") =>
        /\ IsPrefix(before.files, pipelineData.files)
        /\ \A k \in 1..Len(AddedByFindFiles) :
              AddedByFindFiles[k].path \notin Paths(before.files)
        /\ NoDuplicatePaths(AddedByFindFiles)

\* Find-Files has ended on a response naming a new path twice, with other
\* files already present: the path was added once
C10_Witness ==
    /\ StepEnded("FIND_FILES")
    /\ Parseable(lastStep.outcome)
    /\ LET a == Prop(lastStep.outcome.text.doc, "additionalFiles")
       IN  /\ a.t = "array"
           /\ Len(a.v) = Len(<<PathN, PathN>>)
           /\ \A k \in 1..Len(a.v) : Prop(a.v[k], "path") = JStr(PathN)
    /\ PathA \in Paths(before.files)
    /\ Len(AddedByFindFiles) = Len(<<PathN>>)

(***************************************************************************)
(* Runs on texts whose headings name a README in several casings           *)
(***************************************************************************)
ReadmePathMixed == <<"R", "e", "a", "d", "M", "e", ".", "M", "D">>

\* a section of the documented form: heading, fenced block
HeadedSection(path, body) ==
    <<"#", " ", BT>> \o path \o <<BT, NL>> \o Fence \o <<NL>> \o body \o CloseFence

ReadmeSections ==
    {HeadedSection(p, <<"x">>) : p \in {PathA, ReadmePathLower, ReadmePathMixed, ReadmePath}}

ReadmeTexts ==
    {JoinSections(secs) : secs \in UNION {[1..n -> ReadmeSections] : n \in 1..MaxSections}}

ReadmeNext ==
    \/ \E k \in 1..MaxSteps : handleUpdate(k)
    \/ \E text \in ReadmeTexts : StartText(text)
    \/ BeginStep
    \/ \E outcome \in ReadmeOutcomes : SettleStep(outcome)
    \/ Finish
    \/ clearMainState

ReadmeSpec == Init /\ [][ReadmeNext]_vars

\* the string the Generate-README step that has just ended handed to the upsert
GeneratedReadme ==
    IF lastStep.client THEN generateReadme(lastStep.outcome).value ELSE ReadmeSkipped

\* C11: when Generate-README runs on files that hold an entry whose path is
\* README.md in any casing, the upsert leaves the length of the list and
\* every path (casing included) as they were, puts the generated text in the
\* first such entry, changes no other entry and adds no README entry.
C11_UpsertReplacesExistingReadme ==
    (StepEnded("GENERATE_README") /\ ReadmeEntries(before.files) # {}) =>
        LET readmeIndex == CHOOSE k \in ReadmeEntries(before.files) :
                               \A j \in ReadmeEntries(before.files) : k <= j
        IN  /\ Len(pipelineData.files) = Len(before.files)
            /\ \A j \in 1..Len(before.files) :
                  /\ pipelineData.files[j].path = before.files[j].path
                  /\ j # readmeIndex => pipelineData.files[j] = before.files[j]
            /\ pipelineData.files[readmeIndex].content = GeneratedReadme
            /\ ReadmeEntries(pipelineData.files) = ReadmeEntries(before.files)

\* Generate-README has ended on a generated text with a lowercase readme.md
\* after another file: the entry is in place, with the text
C11_Witness ==
    /\ StepEnded("GENERATE_README")
    /\ lastStep.client
    /\ ~Throws(lastStep.outcome)
    /\ Len(before.files) = Len(<<PathA, ReadmePathLower>>)
    /\ before.files[2].path = ReadmePathLower
    /\ pipelineData.files[2].path = ReadmePathLower
    /\ pipelineData.files[2].content = Trim(lastStep.outcome.text.doc.v)
    /\ pipelineData.files[2].content # before.files[2].content

\* C12 (as claimed): every execution of the Generate-README step yields a
\* non-empty string, which is the content the upsert stores, whatever the
\* call does (no client, rejection, any response text).
C12_ReadmeNeverEmpty ==
    StepEnded("GENERATE_README") =>
        /\ GeneratedReadme # <<>>
        /\ \A k \in ReadmeEntries(pipelineData.files) : pipelineData.files[k].content # <<>>

NoStepEnabled == \A k \in 1..Len(workflowSteps) : ~workflowSteps[k].enabled

\* the text the run in progress (or the last one) extracts from
InputContent ==
    IF input.kind = "text" THEN input.value ELSE processInputFiles(input.value)

\* C13: a successful run with no enabled step commits exactly what
\* parseWithRegex makes of the input text (same files, order and contents),
\* leaves documentationNotes empty, dispatches no step and issues no AI call.
C13_NoStepsGivesExtractorOutput ==
    (result = "success" /\ NoStepEnabled) =>
        /\ pipelineData.fullProjectContent = InputContent
        /\ parsedFiles = parseWithRegex(InputContent)
        /\ pipelineData.documentationNotes = <<>>
        /\ executed = <<>>
        /\ aiCalls = <<>>

\* such a run has committed two extracted files, with a key at hand
C13_Witness ==
    /\ result = "success"
    /\ NoStepEnabled
    /\ getAiClient(apiKeyOverride, envApiKey)
    /\ Len(parsedFiles) = MaxSections
    /\ parsedFiles[1] = [path |-> PathA, content |-> <<"x">>]

\* C14: from the end of Preparing on, through every step and to the end of
\* the run, fullProjectContent is the content made of the input when the
\* run started; no executor and no part of the loop gives it another value.
C14_FullProjectContentFixed ==
    (pc \in {"loop", "await"} \/ LoopCompleted) =>
        /\ pipelineData.fullProjectContent = InputContent
        /\ executed # <<>> => before.fullProjectContent = InputContent

\* a run of the three default steps in which Find-Files added a file and
\* Extract-Docs stored notes has ended with the content of the input
C14_Witness ==
    /\ result = "success"
    /\ Len(executed) = Len(INITIAL_WORKFLOW_STEPS)
    /\ aiCalls = executed
    /\ pipelineData.documentationNotes = Notes
    /\ PathN \in Paths(pipelineData.files)
    /\ pipelineData.fullProjectContent = FileSection

\* C15: a run commits nothing before its last line: while the app is at the
\* input stage or processing, parsedFiles and selectedFilePath hold the
\* values they had when the run started (the empty list and null, the only
\* values they have at the input stage); a run that ends in Failure, from
\* the ingestor or from the emptiness check, leaves them so, with appStep
\* back at 'input' and a non-empty error message set.
C15_FailureCommitsNothing ==
    /\ appStep \in {"input", "processing"} => (parsedFiles = <<>> /\ selectedFilePath = Null)
    /\ result = "failure" =>
          /\ appStep = "input"
          /\ pc = "idle"
          /\ error # Null
          /\ error.value # <<>>
          /\ parsedFiles = <<>>
          /\ selectedFilePath = Null

\* a run whose Extract-Docs step stored notes has failed on the emptiness
\* check: the notes of the run stay in its frame, nothing is committed
C15_Witness ==
    /\ result = "failure"
    /\ ~IngestFailed
    /\ aiCalls # <<>>
    /\ pipelineData.documentationNotes = Notes
    /\ error = Some(EmptyFilesMessage)
    /\ parsedFiles = <<>>

(***************************************************************************)
(* The run under the assumption that every awaited promise settles and the *)
(* suspended handler is then resumed.  RunStep lists what ends a wait or   *)
(* carries the loop on; at every moment of a run one of its disjuncts is   *)
(* enabled.  The ingestor's wait is written with its rejection alone:      *)
(* IngestResolve is enabled exactly when IngestReject is and either one    *)
(* ends the wait, so weak fairness of RunStep is the assumption that       *)
(* processInputFiles settles, one way or the other.                        *)
(***************************************************************************)
RunStep ==
    \/ \E message \in IngestErrors : IngestReject(message)
    \/ BeginStep
    \/ \E outcome \in FindFilesOutcomes \cup ExtractDocsOutcomes \cup ReadmeOutcomes :
          SettleStep(outcome)
    \/ Finish

FairSpec == Spec /\ WF_vars(RunStep)

\* C16: a run enters 'processing' only from 'input'; while it is there the
\* handler is under way (preparing, or at step i of the active steps); the
\* only ways out are to 'editor' on Success and to 'input' with an error on
\* Failure, both with the processing message cleared; and if every call
\* settles, each run does leave 'processing'.
C16_RunReachesOneTerminalOutcome ==
    /\ [][(appStep # "processing" /\ appStep' = "processing") =>
              (appStep = "input" /\ pc' \in {"ingest", "loop"} /\ error' = Null)]_vars
    /\ [](appStep = "processing" =>
              (pc \in {"ingest", "loop", "await"} /\ result = "none" /\ processingMessage # Null))
    /\ [][(appStep = "processing" /\ appStep' # "processing") =>
              /\ processingMessage' = Null
              /\ pc' = "idle"
              /\ \/ appStep' = "editor" /\ result' = "success" /\ error' = Null
                 \/ appStep' = "input" /\ result' = "failure" /\ error' # Null]_vars
    /\ (appStep = "processing") ~> (appStep # "processing" /\ result \in {"success", "failure"})

\* a run has left 'processing' on Failure after its steps ran
C16_Witness ==
    /\ result = "failure"
    /\ appStep = "input"
    /\ processingMessage = Null
    /\ Len(executed) = Len(activeSteps)
    /\ executed # <<>>

\* calls of generateContent the run has issued that have not settled: with
\* a client every step that has ended issued one call and saw it settle
InFlight == IF aiCalls = <<>> THEN 0 ELSE Len(aiCalls) - (i - 1)

\* C17: at most one call of generateContent is in flight in a run, and only
\* while the handler is suspended on it; the call of a step is issued from
\* the state its predecessor left, all of the predecessor's changes applied
\* (after a Generate-README step the README entry is in files).
C17_OneCallInFlight ==
    appStep = "processing" =>
        /\ InFlight \in {0, 1}
        /\ InFlight = 1 <=> pc = "await"
        /\ pc = "await" =>
              /\ aiCalls[Len(aiCalls)] = activeSteps[i].id
              /\ Len(aiCalls) = i
              /\ before = pipelineData
              /\ (i > 1 /\ activeSteps[i - 1].type = "GENERATE_README") =>
                    ReadmeEntries(pipelineData.files) # {}

\* the call of a second step is in flight after a Generate-README step
\* whose call has settled and whose README is in files
C17_Witness ==
    /\ pc = "await"
    /\ i > 1
    /\ activeSteps[i - 1].type = "GENERATE_README"
    /\ Len(aiCalls) = i
    /\ ReadmeEntries(pipelineData.files) # {}


(***************************************************************************)
(* The step list during a run.  App renders only the spinner while         *)
(* processing (lines 256-258), so the workflow editor cannot be operated   *)
(* in the middle of a run; EditSpec lets its callbacks reach               *)
(* setWorkflowSteps while handleProcessInput is suspended on a call of     *)
(* generateContent, to see what the handler does with such a change.       *)
(***************************************************************************)
EditedPrompt == <<"edited prompt">>

\* onStepsChange = setWorkflowSteps while the run awaits generateContent; one
\* change of the initial list is followed
SetWorkflowStepsDuringRun(newSteps) ==
    /\ pc = "await"
    /\ workflowSteps = INITIAL_WORKFLOW_STEPS
    /\ workflowSteps' = newSteps
    /\ UNCHANGED <<appStep, error, processingMessage, parsedFiles, selectedFilePath,
                   apiKeyOverride, envApiKey, frameVars, historyVars>>

\* the enabled checkbox of a step card
ToggleDuringRun(k) ==
    /\ k \in 1..Len(workflowSteps)
    /\ SetWorkflowStepsDuringRun(WithUpdated(workflowSteps,
                                             [workflowSteps[k] EXCEPT !.enabled = ~@]))

\* the prompt editor of a step card
EditPromptDuringRun(k) ==
    /\ k \in 1..Len(workflowSteps)
    /\ SetWorkflowStepsDuringRun(WithUpdated(workflowSteps,
                                             [workflowSteps[k] EXCEPT !.prompt = EditedPrompt]))

DeleteDuringRun(k) ==
    /\ k \in 1..Len(workflowSteps)
    /\ SetWorkflowStepsDuringRun(WithoutStep(workflowSteps, workflowSteps[k].id))

CloneDuringRun(k) ==
    /\ k \in 1..Len(workflowSteps)
    /\ Len(workflowSteps) < MaxSteps
    /\ SetWorkflowStepsDuringRun(WithClone(workflowSteps, k))

AddDuringRun(type) ==
    /\ Len(workflowSteps) < MaxSteps
    /\ SetWorkflowStepsDuringRun(WithAdded(workflowSteps, type))

\* a step card is dropped on another one
DropDuringRun(draggedIndex, targetIndex) ==
    /\ draggedIndex \in 1..Len(workflowSteps)
    /\ targetIndex \in 1..Len(workflowSteps)
    /\ draggedIndex # targetIndex
    /\ SetWorkflowStepsDuringRun(WithDropped(workflowSteps, draggedIndex, targetIndex))

EditOutcomes == {Rejected(NetError), Resolved(NoText)}

EditNext ==
    \/ StartText(FileSection)
    \/ BeginStep
    \/ \E outcome \in EditOutcomes : SettleStep(outcome)
    \/ Finish
    \/ clearMainState
    \/ \E k \in 1..MaxSteps : ToggleDuringRun(k)
    \/ \E k \in 1..MaxSteps : EditPromptDuringRun(k)
    \/ \E k \in 1..MaxSteps : DeleteDuringRun(k)
    \/ \E k \in 1..MaxSteps : CloneDuringRun(k)
    \/ \E type \in StepTypes : AddDuringRun(type)
    \/ \E draggedIndex, targetIndex \in 1..MaxSteps : DropDuringRun(draggedIndex, targetIndex)

EditSpec == Init /\ [][EditNext]_vars

StepIdsOf(steps) == [n \in 1..Len(steps) |-> steps[n].id]

\* C18: the steps of a run are the enabled steps of the list configured when
\* the run started, in that order and with the prompts they had then; a
\* change of the configured list made while the run is suspended on a call of
\* generateContent (a step added, deleted, cloned, moved, toggled, its prompt
\* edited) changes neither the steps that run nor their order
C18_StepListFixedAtRunStart ==
    /\ [][(pc = "idle" /\ pc' = "loop") => activeSteps' = FilterEnabled(workflowSteps)]_vars
    /\ [][pc # "idle" => activeSteps' = activeSteps]_vars
    /\ [](/\ Len(executed) <= Len(activeSteps)
          /\ executed = SubSeq(StepIdsOf(activeSteps), 1, Len(executed)))
    /\ [](pc = "await" => /\ aiCalls[Len(aiCalls)] = activeSteps[i].id
                          /\ processingMessage.value.name = activeSteps[i].name)
    /\ [](result = "success" => executed = StepIdsOf(activeSteps))

\* the second step was deleted while the run awaited a call, and the run went
\* through the three steps it started with
C18_Witness ==
    /\ result = "success"
    /\ executed = <<1, 2, 3>>
    /\ StepIdsOf(workflowSteps) = <<1, 3>>
    /\ activeSteps = INITIAL_WORKFLOW_STEPS


(***************************************************************************)
(* The extractor on its own: a text is extracted, the files found are      *)
(* written out the way processInputFiles writes the entries of an archive  *)
(* (the project downloaded as a zip and uploaded again), and the result is *)
(* extracted once more.                                                    *)
(***************************************************************************)
\* path.split('.').pop() || '' (line 128)
Lang(path) ==
    LET dots == {k \in 1..Len(path) : path[k] = "."}
    IN  IF dots = {} THEN path
        ELSE SubSeq(path, (CHOOSE k \in dots : \A j \in dots : k >= j) + 1, Len(path))

\* line 129: the heading, the fenced block tagged with the extension, the
\* delimiter
SerializeEntry(path, content) ==
    <<"#", "#", "#", " ", BT>> \o path \o <<BT, NL>> \o Fence \o Lang(path) \o <<NL>>
    \o content \o CloseFence \o SectionDelimiter

\* lines 125-131: the entries of the archive one after the other
RECURSIVE SerializeEntries(_)
SerializeEntries(files) ==
    IF files = <<>> THEN <<>>
    ELSE SerializeEntry(files[1].path, files[1].content) \o SerializeEntries(Tail(files))

IconReference == <<Quote>> \o IconPrefix \o <<"1">> \o IconSuffix \o <<Quote>>
PathJs == <<"b", ".", "j", "s">>

\* sections of the documented form: a heading naming a path, then a fenced
\* block or nothing
ManifestSection == HeadedSection(ManifestPath, IconReference)
ScriptSection == HeadedSection(PathJs, <<"y">>)
HeadingOnlySection == <<"#", "#", " ", BT, "e", BT>>
HeadingSections == {FileSection, ScriptSection, ManifestSection, HeadingOnlySection}

\* sections whose first line is no heading: the heading comes on a later
\* line, the quoted path stands on a first line without hashes, the hashes
\* stand on a first line without a quoted path, the section is a bare block
LateHeadingSection == <<"h", "i", NL>> \o FileSection
UnhashedSection == <<"s", "e", "e", " ", BT, "a", BT, NL>> \o Fence \o <<NL, "x">> \o CloseFence
UnquotedSection == <<"#", " ", "a", NL, BT, "a", BT, NL>> \o Fence \o <<NL, "x">> \o CloseFence
BlockSection == Fence \o <<NL, "x">> \o CloseFence
NonHeadingSections == {LateHeadingSection, UnhashedSection, UnquotedSection, BlockSection}

\* texts of one to MaxSections sections, the manifest among them at most once
ExtractorTexts ==
    {JoinSections(secs) : secs \in
        {s \in UNION {[1..n -> HeadingSections \cup NonHeadingSections] : n \in 1..MaxSections} :
            Cardinality({k \in 1..Len(s) : s[k] = ManifestSection}) <= 1}}

ExtractorInit ==
    /\ Init
    /\ envApiKey = NoKey

\* a text is handed to parseWithRegex
Extract(text) ==
    /\ input = NoInput
    /\ input' = [kind |-> "text", value |-> text]
    /\ pipelineData' = [fullProjectContent |-> text,
                        files |-> parseWithRegex(text),
                        documentationNotes |-> <<>>]
    /\ UNCHANGED <<appVars, pc, activeSteps, i, historyVars>>

\* the files found are serialised and the serialisation is extracted
ExtractSerialized ==
    /\ input # NoInput
    /\ before = EmptyPipelineData
    /\ before' = pipelineData
    /\ LET serialized == SerializeEntries(pipelineData.files)
       IN  pipelineData' = [fullProjectContent |-> serialized,
                            files |-> parseWithRegex(serialized),
                            documentationNotes |-> <<>>]
    /\ UNCHANGED <<appVars, pc, input, activeSteps, i, executed, aiCalls, lastStep, result>>

ExtractorNext ==
    \/ \E text \in ExtractorTexts : Extract(text)
    \/ ExtractSerialized

ExtractorSpec == ExtractorInit /\ [][ExtractorNext]_vars

FilePairs(files) == {<<files[k].path, files[k].content>> : k \in 1..Len(files)}
Extracted == input # NoInput /\ before = EmptyPipelineData
ExtractedAgain == before # EmptyPipelineData

\* C19: extracting the serialisation of what was extracted from a text gives
\* the same set of (path, content) pairs as the first extraction, also for
\* files of empty content such as the icon stubs of a manifest
C19_ExtractorRoundTrip ==
    ExtractedAgain => FilePairs(pipelineData.files) = FilePairs(before.files)


\* the sections of the text that was extracted, as they were written
SectionsOf(text) == Split(text, SectionDelimiter)
HeadedOnly(text) == SelectSeq(SectionsOf(text), LAMBDA s : s \notin NonHeadingSections)

\* C20: a section whose first line is not a heading (hashes, then somewhere on
\* the line a path between grave accents) yields no file, also when a later
\* line carries a heading, a quoted path or a fenced block: the files of a
\* text are those of its heading sections alone, and none when it has none
C20_NoHeadingNoFile ==
    Extracted =>
        pipelineData.files = IF HeadedOnly(input.value) = <<>> THEN <<>>
                             ELSE parseWithRegex(JoinSections(HeadedOnly(input.value)))

\* a section with its heading on the second line, before a heading section
C20_Witness ==
    /\ Extracted
    /\ input.value = JoinSections(<<LateHeadingSection, ScriptSection>>)
    /\ pipelineData.files = <<[path |-> PathJs, content |-> <<"y">>]>>


(***************************************************************************)
(* The manifest rule of parseWithRegex (lines 69-78) on texts with one     *)
(* manifest.json section that refers to icons, beside a section for one of *)
(* the icons or not.                                                       *)
(***************************************************************************)
MaxReferences == 2

IconPath(digits) == IconPrefix \o digits \o IconSuffix
IconNames == {<<"1">>, <<"2">>, <<"1", "6">>, <<"x">>}
\* the names that \d+ accepts
NumberedNames == {<<"1">>, <<"2">>, <<"1", "6">>}
Reference(name) == <<Quote>> \o IconPath(name) \o <<Quote>>

RECURSIVE References(_)
References(names) ==
    IF names = <<>> THEN <<>>
    ELSE Reference(names[1]) \o <<",">> \o References(Tail(names))

IconSection(name) == HeadedSection(IconPath(name), <<"x">>)

\* a manifest naming the icons of refs; the icon named beside is given in a
\* section of its own, before the manifest or after it
ManifestCases ==
    [refs : UNION {[1..n -> IconNames] : n \in 0..MaxReferences},
     beside : {<<>>, <<"1">>, <<"2">>},
     first : BOOLEAN]

ManifestText(case) ==
    LET manifest == HeadedSection(ManifestPath, References(case.refs))
    IN  IF case.beside = <<>> THEN manifest
        ELSE IF case.first THEN JoinSections(<<IconSection(case.beside), manifest>>)
             ELSE JoinSections(<<manifest, IconSection(case.beside)>>)

ManifestTexts == {ManifestText(case) : case \in ManifestCases}

ManifestNext == \E text \in ManifestTexts : Extract(text)

ManifestSpec == ExtractorInit /\ [][ManifestNext]_vars

EntriesAt(files, path) == {k \in 1..Len(files) : files[k].path = path}

\* C21: with manifest.json among the extracted files, every path
\* icons/icon<digits>.png quoted in its content is in the output; a quoted
\* path that the text gave no section is added once, with empty content,
\* however often it is quoted; a quoted path that has a section keeps that one
\* entry; nothing else is added
C21_ManifestStubs ==
    \A case \in ManifestCases :
        (Extracted /\ input.value = ManifestText(case)) =>
            LET files == pipelineData.files
                quoted == {case.refs[k] : k \in 1..Len(case.refs)} \cap NumberedNames
                given == IF case.beside = <<>> THEN {} ELSE {case.beside}
            IN  /\ Cardinality(EntriesAt(files, ManifestPath)) = 1
                /\ \A name \in quoted \ given :
                       /\ Cardinality(EntriesAt(files, IconPath(name))) = 1
                       /\ \A k \in EntriesAt(files, IconPath(name)) : files[k].content = <<>>
                /\ \A name \in given :
                       /\ Cardinality(EntriesAt(files, IconPath(name))) = 1
                       /\ \A k \in EntriesAt(files, IconPath(name)) : files[k].content = <<"x">>
                /\ Len(files) = 1 + Cardinality(quoted \cup given)

\* icon 1 is quoted twice and has a section, icon 16 is quoted and has none
C21_Witness ==
    /\ Extracted
    /\ input.value = ManifestText([refs |-> <<<<"1">>, <<"1", "6">>>>, beside |-> <<"1">>,
                                   first |-> TRUE])
    /\ pipelineData.files =
           <<[path |-> IconPath(<<"1">>), content |-> <<"x">>],
             [path |-> ManifestPath,
              content |-> Reference(<<"1">>) \o <<",">> \o Reference(<<"1", "6">>) \o <<",">>],
             [path |-> IconPath(<<"1", "6">>), content |-> <<>>]>>


HasNotesString(o) == Parseable(o) /\ Prop(o.text.doc, "documentationNotes").t = "string"

\* C22: an Extract-Docs step whose call resolved with a parseable response
\* that has a string documentationNotes leaves exactly that string as the
\* notes, whatever the notes were before the step (those of an earlier
\* Extract-Docs step, its diagnostic), and leaves files as they were
C22_ExtractDocsReplacesNotes ==
    (/\ StepEnded("EXTRACT_DOCS")
     /\ lastStep.client
     /\ HasNotesString(lastStep.outcome))
    => /\ pipelineData.documentationNotes =
              Prop(lastStep.outcome.text.doc, "documentationNotes").v
       /\ pipelineData.files = before.files
       /\ pipelineData.fullProjectContent = before.fullProjectContent

\* a second Extract-Docs step has stored its notes over the diagnostic the
\* first one had left
C22_Witness ==
    /\ StepEnded("EXTRACT_DOCS")
    /\ HasNotesString(lastStep.outcome)
    /\ before.documentationNotes # <<>>
    /\ IsPrefix(FallbackNotePrefix, before.documentationNotes)
    /\ pipelineData.documentationNotes = Notes
    /\ before.files # <<>>


\* C23: when Generate-README runs on files none of which is README.md in any
\* casing, one entry README.md with the generated text is put at the front
\* and the files held before follow it, in their order and as they were
C23_UpsertInsertsReadmeFirst ==
    (StepEnded("GENERATE_README") /\ ReadmeEntries(before.files) = {}) =>
        /\ Len(pipelineData.files) = Len(before.files) + 1
        /\ pipelineData.files[1] = [path |-> ReadmePath, content |-> GeneratedReadme]
        /\ Tail(pipelineData.files) = before.files

\* Generate-README has ended on the two files that the extractor and
\* Find-Files had found
C23_Witness ==
    /\ StepEnded("GENERATE_README")
    /\ Len(before.files) = Len(<<PathA, PathN>>)
    /\ before.files[1].path = PathA
    /\ before.files[2].path = PathN
    /\ Len(pipelineData.files) = Len(<<ReadmePath, PathA, PathN>>)
    /\ pipelineData.files[1].path = ReadmePath
    /\ pipelineData.files[3] = before.files[2]


PathsOf(files) == [k \in 1..Len(files) |-> files[k].path]

\* s can be had from t by leaving elements out
RECURSIVE IsSubsequence(_, _)
IsSubsequence(s, t) ==
    IF s = <<>> THEN TRUE
    ELSE IF t = <<>> THEN FALSE
         ELSE IF s[1] = t[1] THEN IsSubsequence(Tail(s), Tail(t))
              ELSE IsSubsequence(s, Tail(t))

AStepEnded == pc = "loop" /\ lastStep.type # "none"

\* C24: no step of a run removes a file or changes the order of two files:
\* the paths before a step are a subsequence of the paths after it;
\* Find-Files keeps the entries it found and adds after them; Extract-Docs
\* leaves the list alone; Generate-README either changes the content of one
\* README entry or puts one entry in front
C24_StepsKeepEntriesAndOrder ==
    AStepEnded =>
        /\ IsSubsequence(PathsOf(before.files), PathsOf(pipelineData.files))
        /\ StepEnded("FIND_FILES") => IsPrefix(before.files, pipelineData.files)
        /\ StepEnded("EXTRACT_DOCS") => pipelineData.files = before.files
        /\ StepEnded("GENERATE_README") =>
              \/ /\ Tail(pipelineData.files) = before.files
                 /\ ToLowerCase(pipelineData.files[1].path) = ReadmePathLower
              \/ /\ Len(pipelineData.files) = Len(before.files)
                 /\ \E r \in ReadmeEntries(before.files) :
                       \A k \in 1..Len(before.files) :
                          /\ pipelineData.files[k].path = before.files[k].path
                          /\ k # r => pipelineData.files[k] = before.files[k]

\* Find-Files has added two files after the one it found
C24_Witness ==
    /\ StepEnded("FIND_FILES")
    /\ before.files # <<>>
    /\ Len(pipelineData.files) = Len(before.files) + MaxAdditional
    /\ IsPrefix(before.files, pipelineData.files)


\* the files of a Find-Files response that come with a string path and a
\* string content
Supplied(o) ==
    LET given == Prop(o.text.doc, "additionalFiles")
    IN  IF Parseable(o) /\ given.t = "array"
        THEN {n \in 1..Len(given.v) :
                 /\ Prop(given.v[n], "path").t = "string"
                 /\ Prop(given.v[n], "content").t = "string"}
        ELSE {}
SuppliedFile(o, n) ==
    LET file == Prop(o.text.doc, "additionalFiles").v[n]
    IN  [path |-> Prop(file, "path").v, content |-> Prop(file, "content").v]

\* C25: when the response of Find-Files names a path that state.files holds
\* already, with another content, the entry keeps the content it had and the
\* content of the response is not stored anywhere
C25_FindFilesKeepsExistingContent ==
    (StepEnded("FIND_FILES") /\ lastStep.client) =>
        \A n \in Supplied(lastStep.outcome) :
            LET file == SuppliedFile(lastStep.outcome, n)
            IN  \A k \in 1..Len(before.files) :
                    (before.files[k].path = file.path /\ before.files[k].content # file.content)
                    => /\ pipelineData.files[k] = before.files[k]
                       /\ \A j \in 1..Len(pipelineData.files) :
                              pipelineData.files[j].path = file.path
                              => pipelineData.files[j].content # file.content

\* the response gave another content for the file the text had given
C25_Witness ==
    /\ StepEnded("FIND_FILES")
    /\ \E n \in Supplied(lastStep.outcome) :
          /\ SuppliedFile(lastStep.outcome, n) = [path |-> PathA, content |-> <<"A", "I">>]
          /\ \E k \in 1..Len(before.files) :
                /\ before.files[k] = [path |-> PathA, content |-> <<"x">>]
                /\ pipelineData.files[k] = before.files[k]


(***************************************************************************)
(* The content rule of parseWithRegex (lines 51-66) on sections made of a  *)
(* heading and one of the forms a body can take; content is what the       *)
(* documented rule gives for the form.                                     *)
(***************************************************************************)
Block(tag, inner) == Fence \o tag \o <<NL>> \o inner \o CloseFence

BodyForms ==
    {[body |-> Block(<<>>, <<"x">>), content |-> <<"x">>],
     [body |-> Block(<<"j", "s">>, <<" ", "x", " ">>), content |-> <<"x">>],
     [body |-> <<"p", NL>> \o Block(<<>>, <<"x">>) \o <<NL, "q">>, content |-> <<"x">>],
     [body |-> Block(<<>>, <<"x">>) \o <<NL>> \o Block(<<>>, <<"z">>), content |-> <<"x">>],
     [body |-> Block(<<>>, <<" ">>), content |-> <<>>],
     [body |-> Block(<<>>, <<>>), content |-> <<>>],
     [body |-> <<"p", " ", "q">>, content |-> <<"p", " ", "q">>],
     [body |-> <<>>, content |-> <<>>]}

HeadingForms ==
    {[line |-> <<"#", " ", BT>> \o PathA \o <<BT>>, path |-> PathA],
     [line |-> <<"#", "#", " ", "F", ":", " ", BT>> \o PathJs \o <<BT, " ", "!">>, path |-> PathJs]}

FormSection(heading, form) ==
    IF form.body = <<>> THEN heading.line ELSE heading.line \o <<NL>> \o form.body

ContentTexts ==
    {JoinSections(secs) : secs \in
        UNION {[1..n -> {FormSection(h, f) : h \in HeadingForms, f \in BodyForms}] :
                  n \in 1..MaxSections}}

ContentNext == \E text \in ContentTexts : Extract(text)

ContentSpec == ExtractorInit /\ [][ContentNext]_vars

\* C26: the content of a file is the trimmed inner text of the fenced block
\* of its section when the section has one, the empty string when that inner
\* text is empty or blank; it is the trimmed text below the heading only
\* when the section has no fenced block, and the empty string when there is
\* none
C26_ContentOfSection ==
    Extracted =>
        /\ Len(pipelineData.files) = Len(SectionsOf(input.value))
        /\ \A k \in 1..Len(pipelineData.files) :
              \A h \in HeadingForms, f \in BodyForms :
                  SectionsOf(input.value)[k] = FormSection(h, f) =>
                      pipelineData.files[k] = [path |-> h.path, content |-> f.content]


(***************************************************************************)
(* README entries over a run: step lists with a cloned or an added step    *)
(* (a second Generate-README, a Find-Files after Generate-README), texts   *)
(* with README entries in several casings, and a Find-Files response that  *)
(* names readme.md.                                                        *)
(***************************************************************************)
\* handleAddStep from the InputView
handleAddStep(type) ==
    /\ InputViewShown
    /\ Len(workflowSteps) < MaxSteps
    /\ workflowSteps' = WithAdded(workflowSteps, type)
    /\ ForgetRun
    /\ UNCHANGED <<appStep, error, processingMessage, parsedFiles, selectedFilePath,
                   apiKeyOverride, envApiKey, pc>>

NamesReadme ==
    Resolved(Plain(JObj([additionalFiles |-> JArr(<<JFile(ReadmePathLower, <<"A", "I">>)>>)])))

\* the call of a Find-Files step resolves with a file called readme.md
SettleNamingReadme ==
    /\ pc = "await"
    /\ ActiveStep(i).type = "FIND_FILES"
    /\ Settled(NamesReadme)

ReadmeCountOutcomes == {Rejected(NetError), Resolved(Plain(JStr(<<" ", "D", "o", "c", NL>>)))}

ReadmeCountNext ==
    \/ \E k \in 1..MaxSteps : handleClone(k)
    \/ \E type \in StepTypes : handleAddStep(type)
    \/ \E text \in ReadmeTexts : StartText(text)
    \/ BeginStep
    \/ \E outcome \in ReadmeCountOutcomes : SettleStep(outcome)
    \/ SettleNamingReadme
    \/ Finish
    \/ clearMainState

ReadmeCountSpec == Init /\ [][ReadmeCountNext]_vars

ReadmeCount(files) == Cardinality(ReadmeEntries(files))
Max(a, b) == IF a >= b THEN a ELSE b

\* a Generate-README step ended before the step that has just ended
ReadmeRanBefore ==
    \E k \in 1..(Len(executed) - 1) : activeSteps[k].type = "GENERATE_README"

\* C27 (as claimed): the number of README entries is fixed by the first
\* Generate-README step of a run: that step leaves max(1, n) of them, n being
\* the number before it, and every later step of the run, whatever its type,
\* leaves the number as it found it, up to the list the run commits
C27_ReadmeCountFixedByFirstReadme ==
    /\ StepEnded("GENERATE_README") =>
          ReadmeCount(pipelineData.files) = Max(1, ReadmeCount(before.files))
    /\ (AStepEnded /\ ReadmeRanBefore) =>
          ReadmeCount(pipelineData.files) = ReadmeCount(before.files)
    /\ result = "success" => parsedFiles = pipelineData.files

\* C27 (amended): every Generate-README step leaves max(1, n) README
\* entries, n being the number before that step, so that a second
\* Generate-README step adds none and stores its text in the entry of the
\* first; Extract-Docs leaves the number alone; Find-Files never lowers it,
\* and raises it when the response names a README path in a casing the files
\* do not hold
C27_ReadmeStepsAddNoSecondReadme ==
    /\ StepEnded("GENERATE_README") =>
          /\ ReadmeCount(pipelineData.files) = Max(1, ReadmeCount(before.files))
          /\ ReadmeRanBefore =>
                /\ Len(pipelineData.files) = Len(before.files)
                /\ \E r \in ReadmeEntries(pipelineData.files) :
                      pipelineData.files[r].content = GeneratedReadme
    /\ StepEnded("EXTRACT_DOCS") =>
          ReadmeCount(pipelineData.files) = ReadmeCount(before.files)
    /\ StepEnded("FIND_FILES") =>
          /\ ReadmeCount(pipelineData.files) >= ReadmeCount(before.files)
          /\ (/\ lastStep.outcome = NamesReadme
              /\ ReadmePathLower \notin Paths(before.files))
             => ReadmeCount(pipelineData.files) = ReadmeCount(before.files) + 1
    /\ result = "success" => parsedFiles = pipelineData.files

\* the second of two Generate-README steps has stored its text over the text
\* of the first, in the one README entry
C27_Witness ==
    /\ StepEnded("GENERATE_README")
    /\ ReadmeRanBefore
    /\ ReadmeCount(before.files) = 1
    /\ ReadmeCount(pipelineData.files) = 1
    /\ pipelineData.files[1].path = ReadmePath
    /\ pipelineData.files[1].content # before.files[1].content


\* a step that enters handleProcessInput: lines 159-165 run
RunStarts ==
    /\ processingMessage' = Some(PreparingMessage)
    /\ processingMessage # Some(PreparingMessage)
RunInFlight == pc # "idle"

\* C28: at most one run is in flight: a run is in flight exactly while
\* appStep is 'processing'; handleProcessInput is entered only from the
\* rendered input view, never during a run; and while a run is in flight
\* parsedFiles, selectedFilePath, error and appStep are written by the end of
\* that run only, not by the start of another one
C28_OneRunInFlight ==
    /\ [](RunInFlight <=> appStep = "processing")
    /\ [][RunStarts => (~RunInFlight /\ appStep = "input" /\ RunInFlight')]_vars
    /\ [][RunInFlight =>
            /\ input' = input
            /\ result' = "none" => UNCHANGED <<parsedFiles, selectedFilePath, error, appStep>>
            /\ result' # "none" => ~RunInFlight']_vars

\* a run on uploaded files is suspended on the call of its second step
C28_Witness ==
    /\ RunInFlight
    /\ appStep = "processing"
    /\ pc = "await"
    /\ input.kind = "files"
    /\ Len(executed) = Len(<<"FIND_FILES", "EXTRACT_DOCS">>)


(***************************************************************************)
(* The editor view (EditorView and its FileTree): the rows of the tree     *)
(* select and delete files by the path the tree rebuilds for them.         *)
(***************************************************************************)
MaxFiles == 4

\* fullPath of the row of a file (FileTree lines 38-60): the parts of the
\* path joined again while the tree is walked, an empty prefix counting as
\* none, so that empty parts at the front are lost
TreePath(path) ==
    LET named == {k \in 1..Len(path) : path[k] # "/"}
    IN  IF named = {} THEN <<>>
        ELSE SubSeq(path, CHOOSE k \in named : \A j \in named : k <= j, Len(path))

EditorShown == appStep = "editor" /\ pc = "idle"

\* a file row is clicked: onFileSelect(fullPath) = setSelectedFilePath
onFileSelect(k) ==
    /\ EditorShown
    /\ k \in 1..Len(parsedFiles)
    /\ selectedFilePath' = Some(TreePath(parsedFiles[k].path))
    /\ ForgetRun
    /\ UNCHANGED <<appStep, error, processingMessage, parsedFiles, workflowSteps,
                   apiKeyOverride, envApiKey, pc>>

\* handleAddFile (lines 242-249) with a path that is accepted
handleAddFile(path) ==
    /\ EditorShown
    /\ path # <<>>
    /\ path \notin Paths(parsedFiles)
    /\ Len(parsedFiles) < MaxFiles
    /\ parsedFiles' = Append(parsedFiles, [path |-> path, content |-> <<>>])
    /\ selectedFilePath' = Some(path)
    /\ ForgetRun
    /\ UNCHANGED <<appStep, error, processingMessage, workflowSteps,
                   apiKeyOverride, envApiKey, pc>>

\* handleDeleteFile (lines 251-256) from the delete button of a row, the
\* confirmation given
handleDeleteFile(k) ==
    /\ EditorShown
    /\ k \in 1..Len(parsedFiles)
    /\ LET path == TreePath(parsedFiles[k].path)
       IN  /\ parsedFiles' = SelectSeq(parsedFiles, LAMBDA f : f.path # path)
           /\ selectedFilePath' = IF selectedFilePath = Some(path) THEN Null
                                  ELSE selectedFilePath
    /\ ForgetRun
    /\ UNCHANGED <<appStep, error, processingMessage, workflowSteps,
                   apiKeyOverride, envApiKey, pc>>

\* handleSaveFile (lines 238-240) from the editor of the selected file
handleSaveFile(content) ==
    /\ EditorShown
    /\ ~selectedFilePath.isNull
    /\ selectedFilePath.value \in Paths(parsedFiles)
    /\ parsedFiles' = [k \in 1..Len(parsedFiles) |->
                          IF parsedFiles[k].path = selectedFilePath.value
                          THEN [parsedFiles[k] EXCEPT !.content = content]
                          ELSE parsedFiles[k]]
    /\ ForgetRun
    /\ UNCHANGED <<appStep, error, processingMessage, selectedFilePath, workflowSteps,
                   apiKeyOverride, envApiKey, pc>>

PathSlashA == <<"/", "a">>
SlashSection == HeadedSection(PathSlashA, <<"x">>)
EditorTexts == {FileSection, SlashSection, JoinSections(<<SlashSection, FileSection>>)}
AddedPaths == {PathN, PathA}
SavedContent == <<"s">>

EditorNext ==
    \/ \E text \in EditorTexts : StartText(text)
    \/ BeginStep
    \/ SettleStep(Rejected(NetError))
    \/ Finish
    \/ clearMainState
    \/ \E k \in 1..MaxFiles : onFileSelect(k)
    \/ \E path \in AddedPaths : handleAddFile(path)
    \/ \E k \in 1..MaxFiles : handleDeleteFile(k)
    \/ handleSaveFile(SavedContent)

EditorSpec == Init /\ [][EditorNext]_vars

\* C29: in every state selectedFilePath is null or the path of a file in
\* parsedFiles
C29_SelectedPathIsAFile ==
    selectedFilePath.isNull \/ selectedFilePath.value \in Paths(parsedFiles)


(***************************************************************************)
(* The workflow editor on its own: every handler of WorkflowEditor, the    *)
(* drop also with a dragged id that the list no longer holds               *)
(* (draggedItemId is reset by a drop on a card only, not by a delete).     *)
(***************************************************************************)
\* steps.findIndex(s => s.id === id), from 0, -1 when there is none
IndexOfId(steps, id) ==
    LET at == {k \in 1..Len(steps) : steps[k].id = id}
    IN  IF at = {} THEN -1 ELSE (CHOOSE k \in at : \A j \in at : k <= j) - 1

\* the start position Array.prototype.splice works with: a negative start
\* counts from the end
SpliceStart(n, start) ==
    IF start < 0 THEN (IF n + start < 0 THEN 0 ELSE n + start)
    ELSE IF start > n THEN n ELSE start

\* a drop that puts the dragged step in without taking it out
DroppedCopy(steps, draggedItemId, targetId) ==
    LET dragged == steps[SpliceStart(Len(steps), IndexOfId(steps, draggedItemId)) + 1]
        targetIndex == IndexOfId(steps, targetId)
    IN  SubSeq(steps, 1, targetIndex) \o <<dragged>> \o SubSeq(steps, targetIndex + 1, Len(steps))

\* handleDrop (lines 137-149) past its first test: the two findIndex and the
\* two splices
Dropped(steps, draggedItemId, targetId) ==
    WithDropped(steps,
                SpliceStart(Len(steps), IndexOfId(steps, draggedItemId)) + 1,
                IndexOfId(steps, targetId) + 1)

\* an id that no step of the list carries, whatever was added since
StaleId == 0
DraggedIds == {StaleId} \cup 1..(MaxSteps + 1)

\* a drop on the card of targetId
handleDrop(draggedItemId, targetId) ==
    /\ InputViewShown
    /\ \E k \in 1..Len(workflowSteps) : workflowSteps[k].id = targetId
    /\ draggedItemId # targetId
    /\ workflowSteps' = Dropped(workflowSteps, draggedItemId, targetId)
    /\ ForgetRun
    /\ UNCHANGED <<appStep, error, processingMessage, parsedFiles, selectedFilePath,
                   apiKeyOverride, envApiKey, pc>>

\* handleDelete, the confirmation given
handleDelete(k) ==
    /\ InputViewShown
    /\ k \in 1..Len(workflowSteps)
    /\ workflowSteps' = WithoutStep(workflowSteps, workflowSteps[k].id)
    /\ ForgetRun
    /\ UNCHANGED <<appStep, error, processingMessage, parsedFiles, selectedFilePath,
                   apiKeyOverride, envApiKey, pc>>

\* the prompt editor of a card: handleUpdate with the prompt changed
handleUpdatePrompt(k) ==
    /\ InputViewShown
    /\ k \in 1..Len(workflowSteps)
    /\ workflowSteps' = WithUpdated(workflowSteps,
                                    [workflowSteps[k] EXCEPT !.prompt = EditedPrompt])
    /\ ForgetRun
    /\ UNCHANGED <<appStep, error, processingMessage, parsedFiles, selectedFilePath,
                   apiKeyOverride, envApiKey, pc>>

DropStep == \E draggedItemId \in DraggedIds, targetId \in 1..(MaxSteps + 1) :
                handleDrop(draggedItemId, targetId)

\* the lists followed: a step is disabled, a prompt edited, a step cloned
\* when no other is; a step is deleted from a list of MaxSteps
Others(k) == (1..Len(workflowSteps)) \ {k}
WorkflowNext ==
    \/ \E k \in 1..MaxSteps :
          /\ \A j \in Others(k) : workflowSteps[j].enabled
          /\ handleUpdate(k)
    \/ \E k \in 1..MaxSteps :
          /\ \A j \in 1..Len(workflowSteps) : workflowSteps[j].prompt # EditedPrompt
          /\ handleUpdatePrompt(k)
    \/ \E k \in 1..MaxSteps :
          /\ \A j \in 1..Len(workflowSteps) : Len(workflowSteps[j].name) = 1
          /\ handleClone(k)
    \/ \E k \in 1..MaxSteps :
          /\ Len(workflowSteps) = MaxSteps
          /\ handleDelete(k)
    \/ handleAddStep("FIND_FILES")
    \/ DropStep

WorkflowSpec == ExtractorInit /\ [][WorkflowNext]_vars

DistinctIds(steps) ==
    \A j, k \in 1..Len(steps) : steps[j].id = steps[k].id => j = k

\* C30: after any sequence of actions of the workflow editor the ids of
\* the steps are pairwise distinct; a drop gives a permutation of the list:
\* the same steps, none lost, doubled or changed, also when the dragged id is
\* not in the list
C30_EditorKeepsIdsDistinct ==
    /\ [](DistinctIds(workflowSteps))
    /\ [][DropStep => /\ Len(workflowSteps') = Len(workflowSteps)
                      /\ Range(workflowSteps') = Range(workflowSteps)]_vars

\* a step was added, the second step deleted, and the added step dropped on
\* the first card
C30_Witness ==
    /\ InputViewShown
    /\ StepIdsOf(workflowSteps) = <<4, 1, 3>>
    /\ DistinctIds(workflowSteps)

=============================================================================
